---- MODULE Spec2Model ----
(***************************************************************************)
(* A model of immich-lib: the execution pipeline of src/executor.rs        *)
(* (execute_group and the steps it calls) and the scoring and conflict     *)
(* detection of src/scoring.rs.                                            *)
(*                                                                         *)
(* Option<T> is modelled as a sequence of length at most one: None is <<>> *)
(* and Some(x) is <<x>>.  Asset ids are small integers: the winner is      *)
(* WinnerId and the losers are 1..n.  The remote service is the            *)
(* environment: the outcome of every call is a nondeterministic choice.    *)
(***************************************************************************)
EXTENDS Integers, Sequences, FiniteSets, TLC

(***************************************************************************)
(* Bounds of the model.                                                    *)
(***************************************************************************)
MaxLosers == 2

MaxAlbums == 2

None == <<>>

Some(x) == <<x>>

IsSome(o) == o # <<>>

Unwrap(o) == o[1]

(***************************************************************************)
(* State of one run of Executor::execute_group.                            *)
(***************************************************************************)
VARIABLES
    preserve_albums,      \* ExecutionConfig.preserve_albums
    force_delete,         \* ExecutionConfig.force_delete
    duplicate_id,         \* analysis.duplicate_id
    winner_id,            \* analysis.winner.asset_id
    losers,               \* analysis.losers, as the sequence of their asset ids
    albums_of,            \* remote service: the albums each loser belongs to
    pc,                   \* position of execute_group
    idx,                  \* index of the loser the current loop is at
    consolidation_result, \* Option<ConsolidationResult>
    albums_to_transfer,   \* transfer_albums: ids collected from the lookups
    pending_albums,       \* transfer_albums: albums the transfer loop has yet to visit
    had_failures,         \* transfer_albums: local had_failures
    error_messages,       \* transfer_albums: local error_messages
    transferred_albums,   \* transfer_albums: local transferred_albums
    album_transfer_result,\* Option<AlbumTransferResult>
    download_results,     \* Vec<OperationResult>
    delete_result,        \* Option<OperationResult>
    group_result,         \* Option<GroupResult>: what execute_group returned
    download_calls,       \* remote service: ids of the download_asset calls, in order
    delete_calls,         \* remote service: the delete_assets calls, in order
    remote_calls          \* remote service: stage and group of every call, in order

VARIABLES
    group,                \* DuplicateGroup.assets handed to from_group
    analysis              \* Option<DuplicateAnalysis>: what from_group returned

\* The rate gate of the Executor (Executor::new, Executor::rate_limited).
VARIABLES
    requests_per_sec,     \* ExecutionConfig.requests_per_sec
    max_concurrent,       \* ExecutionConfig.max_concurrent
    rate_limiter,         \* Executor.rate_limiter: cells it can hand out now
    concurrency,          \* Executor.concurrency: free permits of the semaphore
    clock,                \* time since Executor::new, in replenish intervals
    budget,               \* number of rate_limited calls the driver makes
    issued,               \* rate_limited calls entered so far
    completed,            \* rate_limited calls that have returned
    callers               \* the tasks calling rate_limited: position and log

\* One run of Executor::consolidate_metadata.
VARIABLES
    remote_assets,        \* remote service: exif_info of each asset, by asset id
    winner_has,           \* winner_has_gps, winner_has_datetime, winner_has_description
    best_gps,             \* Option<(lat, lon, loser id)>
    best_datetime,        \* Option<(date_time_original, loser id)>
    best_description,     \* Option<(description, loser id)>
    get_asset_calls,      \* remote service: the get_asset calls and their outcome
    update_calls          \* remote service: the update_asset_metadata calls

\* One run of Executor::transfer_single_album.
VARIABLES
    transfer_pc,          \* position of transfer_single_album
    current_album,        \* album_id: the album being transferred
    elapsed,              \* start.elapsed(), in units of 250 ms
    delay,                \* delay, in units of 250 ms
    attempts,             \* number of try_transfer_album calls started
    add_result,           \* current attempt: result of add_assets_to_album
    remove_result,        \* current attempt: result of remove_assets_from_album
    attempt_result,       \* current attempt: what try_transfer_album returned
    attempt_calls,        \* remote service: the album calls of the current attempt
    last_sleep,           \* the last backoff sleep, if any
    transfer_returned     \* what transfer_single_album returned

\* One run of Executor::execute_all.
VARIABLES
    analyses,             \* groups: the analyses handed to execute_all
    backup_dir,           \* outcome of create_dir_all(config.backup_dir)
    all_pc,               \* position of execute_all
    group_index,          \* index of the analysis the for loop is at
    report                \* the running ExecutionReport

\* One call of letterbox::find_letterbox_pairs.
VARIABLES
    letterbox_assets,     \* assets: the slice handed to find_letterbox_pairs
    letterbox_pairs       \* Option<Vec<LetterboxPair>>: what it returned

\* The backup files written by Executor::download_loser.
VARIABLES
    loser_files,          \* asset_id and filename of each loser, as strings
    backup_paths          \* the path handed to download_asset for each loser so far

configVars == <<preserve_albums, force_delete>>

runVars == <<analyses, backup_dir, all_pc, group_index, report>>

transferVars == <<transfer_pc, current_album, elapsed, delay, attempts, add_result,
                  remove_result, attempt_result, attempt_calls, last_sleep,
                  transfer_returned>>

consolVars == <<remote_assets, winner_has, best_gps, best_datetime,
                best_description, get_asset_calls, update_calls>>

gateVars == <<requests_per_sec, max_concurrent, rate_limiter, concurrency, clock,
              budget, issued, completed, callers>>

\* State of the steps that are refined in specifications of their own.
detailVars == <<gateVars, consolVars, transferVars>>

inputVars == <<duplicate_id, winner_id, losers, albums_of>>

albumVars == <<albums_to_transfer, pending_albums, had_failures, error_messages,
               transferred_albums, album_transfer_result>>

resultVars == <<consolidation_result, download_results, delete_result, group_result>>

callVars == <<download_calls, delete_calls, remote_calls>>

execVars == <<configVars, inputVars, albumVars, resultVars, callVars, pc, idx,
              detailVars, runVars>>

scoreVars == <<group, analysis>>

letterboxVars == <<letterbox_assets, letterbox_pairs>>

pathVars == <<loser_files, backup_paths>>

\* State of the functions that are checked on inputs of their own.
functionVars == <<scoreVars, letterboxVars, pathVars>>

vars == <<execVars, functionVars>>

NoLetterbox ==
    /\ letterbox_assets = <<>>
    /\ letterbox_pairs = <<>>

NoPaths ==
    /\ loser_files = <<>>
    /\ backup_paths = <<>>

WinnerId == 0

Albums == 1..MaxAlbums

LoserIds(n) == [i \in 1..n |-> i]

(***************************************************************************)
(* OperationResult (src/models/execution.rs).  A Skipped result carries    *)
(* its reason; the two reasons execute_group gives are told apart.         *)
(***************************************************************************)
Success(id) == [status |-> "Success", id |-> id]

Failed(id) == [status |-> "Failed", id |-> id]

Skipped(id, reason) == [status |-> "Skipped", id |-> id, reason |-> reason]

ReasonAlbumTransferFailed == "Album transfer failed after retry, skipping deletion to preserve album integrity"

ReasonNoDownloads == "No assets were successfully downloaded"

GroupId == duplicate_id

(***************************************************************************)
(* Results (src/models/execution.rs).                                      *)
(***************************************************************************)
AlbumTransferResult(count, ids, failures, message) ==
    [albums_transferred |-> count, album_ids |-> ids,
     had_failures |-> failures, error_message |-> message]

GroupResult(consolidation, transfer, downloads, delete) ==
    [duplicate_id |-> GroupId, winner_id |-> winner_id,
     consolidation_result |-> consolidation, album_transfer_result |-> transfer,
     download_results |-> downloads, delete_result |-> delete]

(***************************************************************************)
(* Initial state of execute_group: a configuration, an analysis with up to *)
(* MaxLosers losers, and the album membership the remote service holds.    *)
(***************************************************************************)
\* The rate gate at rest: no task calls rate_limited.
NoGate ==
    /\ requests_per_sec = 0
    /\ max_concurrent = 0
    /\ rate_limiter = 0
    /\ concurrency = 0
    /\ clock = 0
    /\ budget = 0
    /\ issued = 0
    /\ completed = 0
    /\ callers = <<>>

\* consolidate_metadata not refined: no asset metadata, no call recorded.
NoConsol ==
    /\ remote_assets = <<>>
    /\ winner_has = None
    /\ best_gps = None
    /\ best_datetime = None
    /\ best_description = None
    /\ get_asset_calls = <<>>
    /\ update_calls = <<>>

\* transfer_single_album not refined.
NoTransfer ==
    /\ transfer_pc = "Idle"
    /\ current_album = None
    /\ elapsed = 0
    /\ delay = 0
    /\ attempts = 0
    /\ add_result = None
    /\ remove_result = None
    /\ attempt_result = None
    /\ attempt_calls = <<>>
    /\ last_sleep = None
    /\ transfer_returned = None

NoDetail == NoGate /\ NoConsol /\ NoTransfer

\* ExecutionReport::new
ExecutionReport_new ==
    [total_groups |-> 0, downloaded |-> 0, deleted |-> 0, failed |-> 0,
     skipped |-> 0, albums_transferred |-> 0, album_transfer_failures |-> 0,
     results |-> <<>>]

\* execute_all not running.
NoRun ==
    /\ analyses = <<>>
    /\ backup_dir = "unknown"
    /\ all_pc = "Idle"
    /\ group_index = 0
    /\ report = ExecutionReport_new

\* A call of the given stage of execute_group reaches the remote service.
Called(stage) ==
    remote_calls' = Append(remote_calls, [stage |-> stage, group |-> duplicate_id])

InitExec ==
    /\ NoDetail
    /\ NoRun
    /\ preserve_albums \in BOOLEAN
    /\ force_delete \in BOOLEAN
    /\ duplicate_id = "group"
    /\ winner_id = WinnerId
    /\ \E n \in 0..MaxLosers :
          /\ losers = LoserIds(n)
          /\ albums_of \in [1..n -> SUBSET Albums]
    /\ pc = "Consolidating"
    /\ idx = 1
    /\ consolidation_result = None
    /\ albums_to_transfer = {}
    /\ pending_albums = {}
    /\ had_failures = FALSE
    /\ error_messages = <<>>
    /\ transferred_albums = <<>>
    /\ album_transfer_result = None
    /\ download_results = <<>>
    /\ delete_result = None
    /\ group_result = None
    /\ download_calls = <<>>
    /\ delete_calls = <<>>
    /\ remote_calls = <<>>

\* execute_group at rest.
NoPipeline ==
    /\ preserve_albums = FALSE
    /\ force_delete = FALSE
    /\ duplicate_id = "group"
    /\ winner_id = WinnerId
    /\ losers = <<>>
    /\ albums_of = <<>>
    /\ pc = "Done"
    /\ idx = 1
    /\ consolidation_result = None
    /\ albums_to_transfer = {}
    /\ pending_albums = {}
    /\ had_failures = FALSE
    /\ error_messages = <<>>
    /\ transferred_albums = <<>>
    /\ album_transfer_result = None
    /\ download_results = <<>>
    /\ delete_result = None
    /\ group_result = None
    /\ download_calls = <<>>
    /\ delete_calls = <<>>
    /\ remote_calls = <<>>

\* The executor at rest, for the specifications of the pure functions.
NoExec == NoPipeline /\ NoDetail /\ NoRun

NoScore ==
    /\ group = <<>>
    /\ analysis = None
    /\ NoLetterbox
    /\ NoPaths

(***************************************************************************)
(* Step 1: consolidate_metadata.  Its outcome is Some or None and nothing  *)
(* later in execute_group reads it; the fields of ConsolidationResult are  *)
(* not modelled in this specification.                                     *)
(***************************************************************************)
\* The album step follows whatever preserve_albums says.
ConsolidateMetadataThenAlbums ==
    /\ pc = "Consolidating"
    /\ \E r \in {None, Some("consolidated")} : consolidation_result' = r
    /\ pc' = "GetAlbums"
    /\ idx' = 1
    /\ Called("consolidation")
    /\ UNCHANGED <<configVars, runVars, detailVars, inputVars, albumVars, download_results,
                   delete_result, group_result, download_calls, delete_calls, functionVars>>

ConsolidateMetadata ==
    /\ pc = "Consolidating"
    /\ \E r \in {None, Some("consolidated")} : consolidation_result' = r
    /\ pc' = IF preserve_albums THEN "GetAlbums" ELSE "Deciding"
    /\ idx' = 1
    /\ Called("consolidation")
    /\ UNCHANGED <<configVars, runVars, detailVars, inputVars, albumVars, download_results,
                   delete_result, group_result, download_calls, delete_calls, functionVars>>

(***************************************************************************)
(* Step 2: transfer_albums.                                                *)
(***************************************************************************)
\* A failed lookup is recorded in error_messages only.
GetAlbumsForAssetSwallowing ==
    /\ pc = "GetAlbums"
    /\ idx <= Len(losers)
    /\ \E ok \in BOOLEAN :
          IF ok
          THEN /\ albums_to_transfer' = albums_to_transfer \cup albums_of[losers[idx]]
               /\ UNCHANGED <<had_failures, error_messages>>
          ELSE /\ error_messages' =
                     Append(error_messages, [kind |-> "lookup", id |-> losers[idx]])
               /\ UNCHANGED <<albums_to_transfer, had_failures>>
    /\ idx' = idx + 1
    /\ Called("albums")
    /\ UNCHANGED <<configVars, runVars, detailVars, inputVars, pending_albums, transferred_albums,
                   album_transfer_result, resultVars, download_calls, delete_calls, pc, functionVars>>

\* One iteration of the lookup loop: get_albums_for_asset for one loser.
GetAlbumsForAsset ==
    /\ pc = "GetAlbums"
    /\ idx <= Len(losers)
    /\ \E ok \in BOOLEAN :
          IF ok
          THEN /\ albums_to_transfer' = albums_to_transfer \cup albums_of[losers[idx]]
               /\ UNCHANGED <<had_failures, error_messages>>
          ELSE /\ had_failures' = TRUE
               /\ error_messages' =
                     Append(error_messages, [kind |-> "lookup", id |-> losers[idx]])
               /\ UNCHANGED albums_to_transfer
    /\ idx' = idx + 1
    /\ Called("albums")
    /\ UNCHANGED <<configVars, runVars, detailVars, inputVars, pending_albums, transferred_albums,
                   album_transfer_result, resultVars, download_calls, delete_calls, pc, functionVars>>

\* The result transfer_albums returns when the lookups found no album.
NoAlbumsResult == AlbumTransferResult(0, <<>>, FALSE, None)

\* After the lookup loop: return early when no album was found.
AlbumsCollected ==
    /\ pc = "GetAlbums"
    /\ idx > Len(losers)
    /\ IF albums_to_transfer = {}
       THEN /\ album_transfer_result' = Some(NoAlbumsResult)
            /\ pc' = "Deciding"
            /\ UNCHANGED pending_albums
       ELSE /\ pending_albums' = albums_to_transfer
            /\ pc' = "TransferAlbums"
            /\ UNCHANGED album_transfer_result
    /\ UNCHANGED <<configVars, runVars, detailVars, inputVars, albums_to_transfer, had_failures,
                   error_messages, transferred_albums, resultVars, callVars, idx,
                   functionVars>>

\* The transfer loop is left at the first album that fails.
TransferAlbumStoppingAtFailure ==
    /\ pc = "TransferAlbums"
    /\ \E album_id \in pending_albums :
          \E transfer_succeeded \in BOOLEAN :
                IF transfer_succeeded
                THEN /\ transferred_albums' = Append(transferred_albums, album_id)
                     /\ pending_albums' = pending_albums \ {album_id}
                     /\ UNCHANGED <<had_failures, error_messages>>
                ELSE /\ had_failures' = TRUE
                     /\ error_messages' =
                           Append(error_messages, [kind |-> "transfer", id |-> album_id])
                     /\ pending_albums' = {}
                     /\ UNCHANGED transferred_albums
    /\ Called("albums")
    /\ UNCHANGED <<configVars, runVars, detailVars, inputVars, albums_to_transfer,
                   album_transfer_result,
                   resultVars, download_calls, delete_calls, pc, idx, functionVars>>

\* One iteration of the transfer loop: transfer_single_album for one album, in
\* the HashMap's iteration order (any order).
TransferAlbum ==
    /\ pc = "TransferAlbums"
    /\ \E album_id \in pending_albums :
          /\ pending_albums' = pending_albums \ {album_id}
          /\ \E transfer_succeeded \in BOOLEAN :
                IF transfer_succeeded
                THEN /\ transferred_albums' = Append(transferred_albums, album_id)
                     /\ UNCHANGED <<had_failures, error_messages>>
                ELSE /\ had_failures' = TRUE
                     /\ error_messages' =
                           Append(error_messages, [kind |-> "transfer", id |-> album_id])
                     /\ UNCHANGED transferred_albums
    /\ Called("albums")
    /\ UNCHANGED <<configVars, runVars, detailVars, inputVars, albums_to_transfer,
                   album_transfer_result,
                   resultVars, download_calls, delete_calls, pc, idx, functionVars>>

\* After the transfer loop: the AlbumTransferResult.
AlbumsTransferred ==
    /\ pc = "TransferAlbums"
    /\ pending_albums = {}
    /\ album_transfer_result' =
          Some(AlbumTransferResult(Len(transferred_albums), transferred_albums,
                                   had_failures,
                                   IF error_messages = <<>> THEN None
                                   ELSE Some(error_messages)))
    /\ pc' = "Deciding"
    /\ UNCHANGED <<configVars, runVars, detailVars, inputVars, albums_to_transfer, pending_albums,
                   had_failures, error_messages, transferred_albums, resultVars,
                   callVars, idx, functionVars>>

(***************************************************************************)
(* Step 3: decide whether to go on to download and delete.                 *)
(***************************************************************************)
should_skip_deletion_never(transfer) == FALSE

should_skip_deletion(transfer) ==
    IF IsSome(transfer) THEN Unwrap(transfer).had_failures ELSE FALSE

Decide ==
    /\ pc = "Deciding"
    /\ IF should_skip_deletion(album_transfer_result)
       THEN /\ group_result' =
                  Some(GroupResult(consolidation_result, album_transfer_result, <<>>,
                                   Some(Skipped(GroupId, ReasonAlbumTransferFailed))))
            /\ pc' = "Done"
       ELSE /\ pc' = "Downloading"
            /\ UNCHANGED group_result
    /\ idx' = 1
    /\ UNCHANGED <<configVars, runVars, detailVars, inputVars, albumVars, consolidation_result,
                   download_results, delete_result, callVars, functionVars>>

(***************************************************************************)
(* Step 4: download_loser for each loser, in order.                        *)
(***************************************************************************)
\* The download loop is left at the first download that fails.
DownloadLoserStoppingAtFailure ==
    /\ pc = "Downloading"
    /\ idx <= Len(losers)
    /\ download_calls' = Append(download_calls, losers[idx])
    /\ \E ok \in BOOLEAN :
          /\ download_results' =
                Append(download_results,
                       IF ok THEN Success(losers[idx]) ELSE Failed(losers[idx]))
          /\ idx' = IF ok THEN idx + 1 ELSE Len(losers) + 1
    /\ Called("download")
    /\ UNCHANGED <<configVars, runVars, detailVars, inputVars, albumVars,
                   consolidation_result, delete_result, group_result, delete_calls, pc,
                   functionVars>>

DownloadLoser ==
    /\ pc = "Downloading"
    /\ idx <= Len(losers)
    /\ download_calls' = Append(download_calls, losers[idx])
    /\ \E ok \in BOOLEAN :
          download_results' =
              Append(download_results,
                     IF ok THEN Success(losers[idx]) ELSE Failed(losers[idx]))
    /\ idx' = idx + 1
    /\ Called("download")
    /\ UNCHANGED <<configVars, runVars, detailVars, inputVars, albumVars, consolidation_result,
                   delete_result, group_result, delete_calls, pc, functionVars>>

(***************************************************************************)
(* Step 5: delete what was downloaded.                                     *)
(***************************************************************************)
RECURSIVE all_ids(_)
all_ids(results) ==
    IF results = <<>> THEN <<>>
    ELSE <<results[1].id>> \o all_ids(Tail(results))

RECURSIVE downloaded_ids(_)
downloaded_ids(results) ==
    IF results = <<>> THEN <<>>
    ELSE (IF results[1].status = "Success" THEN <<results[1].id>> ELSE <<>>)
         \o downloaded_ids(Tail(results))

delete_never_skipped(ids) == FALSE

\* Every delete is permanent.
delete_request_forced(ids) == [ids |-> ids, force |-> TRUE]

\* client.delete_assets(asset_ids, self.config.force_delete)
delete_request(ids) == [ids |-> ids, force |-> force_delete]

\* The delete step is skipped when nothing was downloaded.
delete_is_skipped(ids) == ids = <<>>

DeleteAssets ==
    /\ pc = "Downloading"
    /\ idx > Len(losers)
    /\ LET ids == downloaded_ids(download_results)
       IN  IF delete_is_skipped(ids)
           THEN /\ delete_result' = Some(Skipped(GroupId, ReasonNoDownloads))
                /\ UNCHANGED <<delete_calls, remote_calls>>
           ELSE /\ delete_calls' =
                      Append(delete_calls, delete_request(ids))
                /\ Called("delete")
                /\ \E ok \in BOOLEAN :
                      delete_result' =
                          Some(IF ok THEN Success(GroupId) ELSE Failed(GroupId))
    /\ group_result' =
          Some(GroupResult(consolidation_result, album_transfer_result,
                           download_results, delete_result'))
    /\ pc' = "Done"
    /\ UNCHANGED <<configVars, runVars, detailVars, inputVars, albumVars, consolidation_result,
                   download_results, download_calls, idx, functionVars>>

Init == InitExec /\ NoScore

Next ==
    \/ ConsolidateMetadata
    \/ GetAlbumsForAsset
    \/ AlbumsCollected
    \/ TransferAlbum
    \/ AlbumsTransferred
    \/ Decide
    \/ DownloadLoser
    \/ DeleteAssets

Spec == Init /\ [][Next]_vars

MaxStageLosers == 2

\* The albums of the groups whose runs are followed to their end.
StageAlbums == {1, 2}

\* execute_group is entered with up to MaxStageLosers losers.
InitStages ==
    /\ NoDetail
    /\ NoRun
    /\ NoScore
    /\ preserve_albums \in BOOLEAN
    /\ force_delete \in BOOLEAN
    /\ duplicate_id = "group"
    /\ winner_id = WinnerId
    /\ \E n \in 0..MaxStageLosers :
          /\ losers = LoserIds(n)
          /\ albums_of \in [1..n -> SUBSET StageAlbums]
    /\ pc = "Consolidating"
    /\ idx = 1
    /\ consolidation_result = None
    /\ albums_to_transfer = {}
    /\ pending_albums = {}
    /\ had_failures = FALSE
    /\ error_messages = <<>>
    /\ transferred_albums = <<>>
    /\ album_transfer_result = None
    /\ download_results = <<>>
    /\ delete_result = None
    /\ group_result = None
    /\ download_calls = <<>>
    /\ delete_calls = <<>>
    /\ remote_calls = <<>>

\* execute_group is awaited to its end: while a step is possible, one is taken.
FairSpec == InitStages /\ [][Next]_vars /\ WF_vars(Next)

(***************************************************************************)
(* Properties of execute_group.                                            *)
(***************************************************************************)
SeqToSet(s) == {s[i] : i \in 1..Len(s)}

DeletedIds == UNION {SeqToSet(delete_calls[c].ids) : c \in 1..Len(delete_calls)}

HasSuccess(results) == \E j \in 1..Len(results) : results[j].status = "Success"

\* C1: every asset id in a delete_assets call is the id of a loser of the group
\* whose download, in the same run, returned OperationResult::Success.
DeleteOnlyDownloaded ==
    \A id \in DeletedIds :
        /\ id \in SeqToSet(losers)
        /\ \E j \in 1..Len(download_results) : download_results[j] = Success(id)

\* A delete was issued after one download failed and another succeeded.
DeleteAfterMixedDownloads ==
    /\ delete_calls # <<>>
    /\ delete_calls[1].ids # <<>>
    /\ \E j \in 1..Len(download_results) : download_results[j].status = "Failed"
    /\ pc = "Done"

TransferHadFailures ==
    /\ preserve_albums
    /\ IsSome(album_transfer_result)
    /\ Unwrap(album_transfer_result).had_failures

\* C2: with preserve_albums enabled and had_failures = true in the group's
\* AlbumTransferResult, no download and no delete call is ever issued, and the
\* GroupResult returned has no download result and a Skipped delete_result.
SkipOnAlbumFailure ==
    TransferHadFailures =>
        /\ download_calls = <<>>
        /\ delete_calls = <<>>
        /\ pc \in {"Deciding", "Done"}
        /\ pc = "Done" =>
              /\ IsSome(group_result)
              /\ Unwrap(group_result).album_transfer_result = album_transfer_result
              /\ Unwrap(group_result).download_results = <<>>
              /\ IsSome(Unwrap(group_result).delete_result)
              /\ Unwrap(Unwrap(group_result).delete_result).status = "Skipped"

\* A group with losers returned after its album transfer had failures.
ReturnedAfterAlbumFailure ==
    /\ TransferHadFailures
    /\ pc = "Done"
    /\ losers # <<>>

LookupFailed(l) ==
    \E m \in 1..Len(error_messages) :
        error_messages[m] = [kind |-> "lookup", id |-> l]

\* Every album the loser belongs to was looked up and moved to the winner.
SafelyTransferred(l) ==
    /\ ~LookupFailed(l)
    /\ albums_of[l] \subseteq SeqToSet(transferred_albums)

\* C3: with preserve_albums enabled, no loser whose album lookup failed, or one
\* of whose albums was not transferred, is ever in a delete_assets call.
NeverDeleteUnpreserved ==
    preserve_albums => \A id \in DeletedIds : SafelyTransferred(id)

\* C4 as claimed: a group that returns without a successful download has issued
\* no delete call and has delete_result Skipped with the reason that no assets
\* were successfully downloaded.
NoDownloadNoDeleteAsClaimed ==
    (pc = "Done" /\ ~HasSuccess(Unwrap(group_result).download_results)) =>
        /\ delete_calls = <<>>
        /\ Unwrap(group_result).delete_result =
              Some(Skipped(GroupId, ReasonNoDownloads))

\* C4, amended: a group that returns without a successful download has issued
\* no delete call and has delete_result Skipped; the reason is that no assets
\* were successfully downloaded, unless the group was short-circuited by an
\* album-transfer failure, when the reason is that failure.
NoDownloadNoDelete ==
    (pc = "Done" /\ ~HasSuccess(Unwrap(group_result).download_results)) =>
        /\ delete_calls = <<>>
        /\ Unwrap(group_result).delete_result =
              Some(Skipped(GroupId,
                           IF TransferHadFailures THEN ReasonAlbumTransferFailed
                           ELSE ReasonNoDownloads))

\* A group with losers, every download of which failed, has returned.
ReturnedAfterAllDownloadsFailed ==
    /\ pc = "Done"
    /\ losers # <<>>
    /\ Len(download_calls) = Len(losers)
    /\ ~HasSuccess(download_results)

(***************************************************************************)
(* Scoring and conflict detection (src/scoring.rs).                        *)
(*                                                                         *)
(* A String is a sequence of one-character strings.  A GPS coordinate is   *)
(* an integer number of 0.00001 degrees, so that GPS_THRESHOLD (0.0001     *)
(* degrees) is 10.                                                         *)
(***************************************************************************)
MaxGpsAssets == 3

MaxStrAssets == 3

MaxScoreAssets == 3

GPS == 30

TIMEZONE == 20

CAMERA_INFO == 15

CAPTURE_TIME == 15

LENS_INFO == 10

LOCATION == 10

GPS_THRESHOLD == 10

\* ExifInfo (src/models/exif.rs): the fields scoring.rs reads.
ExifInfo(lat, lon, tz, mk, mdl, dto, lens, cty, ctry, desc, width, height, size) ==
    [latitude |-> lat, longitude |-> lon, time_zone |-> tz, make |-> mk,
     model |-> mdl, date_time_original |-> dto, lens_model |-> lens,
     city |-> cty, country |-> ctry, description |-> desc,
     exif_image_width |-> width, exif_image_height |-> height,
     file_size_in_byte |-> size]

has_gps(e) == IsSome(e.latitude) /\ IsSome(e.longitude)

has_camera_info(e) == IsSome(e.make) \/ IsSome(e.model)

has_timezone(e) == IsSome(e.time_zone)

has_capture_time(e) == IsSome(e.date_time_original)

has_lens_info(e) == IsSome(e.lens_model)

has_location(e) == IsSome(e.city) \/ IsSome(e.country)

\* AssetResponse (src/models/asset.rs): id and exif_info.
AssetResponse(asset_id, exif) == [id |-> asset_id, exif_info |-> exif]

MetadataScore_without_location(g, tz, cam, cap, lens, loc) ==
    [gps |-> g, timezone |-> tz, camera_info |-> cam, capture_time |-> cap,
     lens_info |-> lens, location |-> loc,
     total |-> g + tz + cam + cap + lens]

MetadataScore(g, tz, cam, cap, lens, loc) ==
    [gps |-> g, timezone |-> tz, camera_info |-> cam, capture_time |-> cap,
     lens_info |-> lens, location |-> loc,
     total |-> g + tz + cam + cap + lens + loc]

\* MetadataScore::from_asset
from_asset(asset) ==
    IF asset.exif_info = None THEN MetadataScore(0, 0, 0, 0, 0, 0)
    ELSE LET exif == Unwrap(asset.exif_info)
         IN  MetadataScore(IF has_gps(exif) THEN GPS ELSE 0,
                           IF has_timezone(exif) THEN TIMEZONE ELSE 0,
                           IF has_camera_info(exif) THEN CAMERA_INFO ELSE 0,
                           IF has_capture_time(exif) THEN CAPTURE_TIME ELSE 0,
                           IF has_lens_info(exif) THEN LENS_INFO ELSE 0,
                           IF has_location(exif) THEN LOCATION ELSE 0)

(***************************************************************************)
(* str::trim and str::to_lowercase; the only whitespace modelled is " ".   *)
(***************************************************************************)
is_whitespace(c) == c = " "

RECURSIVE trim_start(_)
trim_start(s) ==
    IF s # <<>> /\ is_whitespace(s[1]) THEN trim_start(Tail(s)) ELSE s

RECURSIVE trim_end(_)
trim_end(s) ==
    IF s # <<>> /\ is_whitespace(s[Len(s)])
    THEN trim_end(SubSeq(s, 1, Len(s) - 1))
    ELSE s

trim(s) == trim_end(trim_start(s))

UpperCase ==
    <<"A", "B", "C", "D", "E", "F", "G", "H", "I", "J", "K", "L", "M",
      "N", "O", "P", "Q", "R", "S", "T", "U", "V", "W", "X", "Y", "Z">>

LowerCase ==
    <<"a", "b", "c", "d", "e", "f", "g", "h", "i", "j", "k", "l", "m",
      "n", "o", "p", "q", "r", "s", "t", "u", "v", "w", "x", "y", "z">>

lower(c) ==
    IF \E k \in 1..Len(UpperCase) : UpperCase[k] = c
    THEN LowerCase[CHOOSE k \in 1..Len(UpperCase) : UpperCase[k] = c]
    ELSE c

to_lowercase(s) == [k \in 1..Len(s) |-> lower(s[k])]

Abs(x) == IF x < 0 THEN -x ELSE x

Contains(s, x) == \E k \in 1..Len(s) : s[k] = x

\* iter().filter_map(f).collect() over a sequence of Options.
RECURSIVE Flatten(_)
Flatten(options) ==
    IF options = <<>> THEN <<>> ELSE options[1] \o Flatten(Tail(options))

(***************************************************************************)
(* has_gps_conflict, dedupe_gps, find_unique_strings.                      *)
(***************************************************************************)
has_gps_conflict_inclusive(coords) ==
    /\ Len(coords) >= 2
    /\ \E i \in 1..Len(coords) : \E j \in (i + 1)..Len(coords) :
          \/ Abs(coords[i][1] - coords[j][1]) >= GPS_THRESHOLD
          \/ Abs(coords[i][2] - coords[j][2]) >= GPS_THRESHOLD

\* Only coordinates next to each other in the list are compared.
has_gps_conflict_of_neighbours(coords) ==
    /\ Len(coords) >= 2
    /\ \E i \in 1..(Len(coords) - 1) :
          \/ Abs(coords[i][1] - coords[i + 1][1]) > GPS_THRESHOLD
          \/ Abs(coords[i][2] - coords[i + 1][2]) > GPS_THRESHOLD

has_gps_conflict(coords) ==
    /\ Len(coords) >= 2
    /\ \E i \in 1..Len(coords) : \E j \in (i + 1)..Len(coords) :
          \/ Abs(coords[i][1] - coords[j][1]) > GPS_THRESHOLD
          \/ Abs(coords[i][2] - coords[j][2]) > GPS_THRESHOLD

WithinThreshold(p, q) ==
    /\ Abs(p[1] - q[1]) <= GPS_THRESHOLD
    /\ Abs(p[2] - q[2]) <= GPS_THRESHOLD

RECURSIVE dedupe_gps_loop(_, _)
dedupe_gps_loop(coords, unique) ==
    IF coords = <<>> THEN unique
    ELSE LET is_duplicate ==
                 \E k \in 1..Len(unique) : WithinThreshold(coords[1], unique[k])
         IN  dedupe_gps_loop(Tail(coords),
                             IF is_duplicate THEN unique
                             ELSE Append(unique, coords[1]))

dedupe_gps(coords) == dedupe_gps_loop(coords, <<>>)

RECURSIVE unique_strings_loop(_, _, _)
unique_strings_loop(values, seen, unique_original) ==
    IF values = <<>> THEN unique_original
    ELSE LET normalized == to_lowercase(trim(values[1]))
         IN  IF normalized # <<>> /\ ~Contains(seen, normalized)
             THEN unique_strings_loop(Tail(values), Append(seen, normalized),
                                      Append(unique_original, trim(values[1])))
             ELSE unique_strings_loop(Tail(values), seen, unique_original)

find_unique_strings_single(values) ==
    IF values = <<>> THEN None
    ELSE LET unique_original == unique_strings_loop(values, <<>>, <<>>)
         IN  IF Len(unique_original) >= 1 THEN Some(unique_original) ELSE None

find_unique_strings(values) ==
    IF values = <<>> THEN None
    ELSE LET unique_original == unique_strings_loop(values, <<>>, <<>>)
         IN  IF Len(unique_original) > 1 THEN Some(unique_original) ELSE None

(***************************************************************************)
(* detect_conflicts.                                                       *)
(***************************************************************************)
MetadataConflict(kind, vals) == [type |-> kind, values |-> vals]

\* The value an asset contributes to each comparison, if any.
gps_value_defaulting(a) ==
    IF a.exif_info = None THEN None
    ELSE LET e == Unwrap(a.exif_info)
         IN  IF IsSome(e.latitude) \/ IsSome(e.longitude)
             THEN Some(<<IF IsSome(e.latitude) THEN Unwrap(e.latitude) ELSE 0,
                         IF IsSome(e.longitude) THEN Unwrap(e.longitude) ELSE 0>>)
             ELSE None

gps_value(a) ==
    IF a.exif_info = None THEN None
    ELSE LET e == Unwrap(a.exif_info)
         IN  IF IsSome(e.latitude) /\ IsSome(e.longitude)
             THEN Some(<<Unwrap(e.latitude), Unwrap(e.longitude)>>)
             ELSE None

timezone_value(a) ==
    IF a.exif_info = None THEN None ELSE Unwrap(a.exif_info).time_zone

camera_value(a) ==
    IF a.exif_info = None THEN None
    ELSE LET e == Unwrap(a.exif_info)
             mk == IF IsSome(e.make) THEN Unwrap(e.make) ELSE <<>>
             mdl == IF IsSome(e.model) THEN Unwrap(e.model) ELSE <<>>
         IN  IF mk = <<>> /\ mdl = <<>> THEN None
             ELSE Some(trim(mk \o <<" ">> \o mdl))

capture_time_value(a) ==
    IF a.exif_info = None THEN None ELSE Unwrap(a.exif_info).date_time_original

gps_values(assets) == Flatten([k \in 1..Len(assets) |-> gps_value(assets[k])])

timezone_values(assets) ==
    Flatten([k \in 1..Len(assets) |-> timezone_value(assets[k])])

camera_values(assets) ==
    Flatten([k \in 1..Len(assets) |-> camera_value(assets[k])])

capture_time_values(assets) ==
    Flatten([k \in 1..Len(assets) |-> capture_time_value(assets[k])])

string_conflict(kind, values) ==
    LET unique == find_unique_strings(values)
    IN  IF IsSome(unique) THEN <<MetadataConflict(kind, Unwrap(unique))>> ELSE <<>>

detect_conflicts(assets) ==
    (IF has_gps_conflict(gps_values(assets))
     THEN <<MetadataConflict("Gps", dedupe_gps(gps_values(assets)))>>
     ELSE <<>>)
    \o string_conflict("Timezone", timezone_values(assets))
    \o string_conflict("CameraInfo", camera_values(assets))
    \o string_conflict("CaptureTime", capture_time_values(assets))

(***************************************************************************)
(* DuplicateAnalysis::from_group.                                          *)
(***************************************************************************)
\* The tiebreak value is the pixel count, not the file size.
ScoredAsset_sized_by_pixels(asset) ==
    [asset_id |-> asset.id,
     score |-> from_asset(asset),
     file_size |->
         IF asset.exif_info = None THEN None
         ELSE LET e == Unwrap(asset.exif_info)
              IN  IF IsSome(e.exif_image_width) /\ IsSome(e.exif_image_height)
                  THEN Some(Unwrap(e.exif_image_width) * Unwrap(e.exif_image_height))
                  ELSE None]

ScoredAsset(asset) ==
    [asset_id |-> asset.id,
     score |-> from_asset(asset),
     file_size |-> IF asset.exif_info = None THEN None
                   ELSE Unwrap(asset.exif_info).file_size_in_byte]

\* Ord::cmp on integers.
cmp(x, y) == IF x < y THEN "Less" ELSE IF x > y THEN "Greater" ELSE "Equal"

unwrap_or(o, default) == IF IsSome(o) THEN Unwrap(o) ELSE default

compare_ascending(a, b) ==
    IF cmp(a.score.total, b.score.total) = "Equal"
    THEN cmp(unwrap_or(b.file_size, 0), unwrap_or(a.file_size, 0))
    ELSE cmp(a.score.total, b.score.total)

compare_total_only(a, b) == cmp(b.score.total, a.score.total)

\* The closure given to sort_by: score descending, then file size descending.
compare(a, b) ==
    IF cmp(b.score.total, a.score.total) = "Equal"
    THEN cmp(unwrap_or(b.file_size, 0), unwrap_or(a.file_size, 0))
    ELSE cmp(b.score.total, a.score.total)

\* slice::sort_by is stable: x goes before the first element it is Less than.
RECURSIVE insert_sorted(_, _)
insert_sorted(x, sorted) ==
    IF sorted = <<>> THEN <<x>>
    ELSE IF compare(x, sorted[1]) = "Less" THEN <<x>> \o sorted
    ELSE <<sorted[1]>> \o insert_sorted(x, Tail(sorted))

RECURSIVE sort_by(_)
sort_by(s) ==
    IF s = <<>> THEN <<>>
    ELSE insert_sorted(s[Len(s)], sort_by(SubSeq(s, 1, Len(s) - 1)))

needs_review_when_several(conflicts) == Len(conflicts) > 1

needs_review_of(conflicts) == conflicts # <<>>

\* The first of the sorted assets is copied, not removed, into the winner.
from_group_winner_among_losers(assets) ==
    LET scored == sort_by([k \in 1..Len(assets) |-> ScoredAsset(assets[k])])
        conflicts == detect_conflicts(assets)
    IN  [duplicate_id |-> GroupId,
         winner |-> Head(scored),
         losers |-> scored,
         conflicts |-> conflicts,
         needs_review |-> needs_review_of(conflicts)]

from_group(assets) ==
    LET scored == sort_by([k \in 1..Len(assets) |-> ScoredAsset(assets[k])])
        conflicts == detect_conflicts(assets)
    IN  [duplicate_id |-> GroupId,
         winner |-> Head(scored),
         losers |-> Tail(scored),
         conflicts |-> conflicts,
         needs_review |-> needs_review_of(conflicts)]

(***************************************************************************)
(* Inputs of from_group: groups of one to n assets with ids 1..n, the EXIF *)
(* block of each drawn from a set of options.                              *)
(***************************************************************************)
Groups(n, options) ==
    {[k \in 1..n |-> AssetResponse(k, f[k])] : f \in [1..n -> options]}

NoFields ==
    ExifInfo(None, None, None, None, None, None, None, None, None, None, None, None,
             None)

\* EXIF blocks that differ in their GPS coordinates.
GpsExifOptions ==
    {None} \cup
    {Some([NoFields EXCEPT !.latitude = lat, !.longitude = lon]) :
        lat \in {None, Some(0), Some(9), Some(18)},
        lon \in {None, Some(0), Some(10)}}

\* EXIF blocks that differ in time zone, camera make and model, capture time.
StrExifOptions ==
    {None, Some(NoFields)} \cup
    {Some([NoFields EXCEPT !.time_zone = Some(tz)]) :
        tz \in {<<" ">>, <<"a">>, <<"A", " ">>, <<"b">>}} \cup
    {Some([NoFields EXCEPT !.make = mk, !.model = mdl]) :
        mk \in {Some(<<>>), Some(<<"a">>), Some(<<" ">>)},
        mdl \in {None, Some(<<"A">>)}} \cup
    {Some([NoFields EXCEPT !.model = Some(<<"a">>)])} \cup
    {Some([NoFields EXCEPT !.date_time_original = Some(dto)]) :
        dto \in {<<"a">>, <<"b">>}} \cup
    {Some([NoFields EXCEPT !.time_zone = Some(<<"a">>), !.make = Some(<<"b">>),
                           !.date_time_original = Some(<<"A">>)])}

\* EXIF blocks that differ in score (0, 15, 15 or 30) and in file size.
ScoreExifOptions ==
    {None} \cup
    {Some([fields EXCEPT !.file_size_in_byte = size]) :
        fields \in {NoFields,
                    [NoFields EXCEPT !.make = Some(<<"a">>)],
                    [NoFields EXCEPT !.date_time_original = Some(<<"a">>)],
                    [NoFields EXCEPT !.latitude = Some(0), !.longitude = Some(0)]},
        size \in {None, Some(0), Some(5)}}

InitGps ==
    /\ NoExec
    /\ NoLetterbox
    /\ NoPaths
    /\ analysis = None
    /\ \E n \in 1..MaxGpsAssets : group \in Groups(n, GpsExifOptions)

InitStr ==
    /\ NoExec
    /\ NoLetterbox
    /\ NoPaths
    /\ analysis = None
    /\ \E n \in 1..MaxStrAssets : group \in Groups(n, StrExifOptions)

InitScore ==
    /\ NoExec
    /\ NoLetterbox
    /\ NoPaths
    /\ analysis = None
    /\ \E n \in 1..MaxScoreAssets : group \in Groups(n, ScoreExifOptions)

\* The call of DuplicateAnalysis::from_group on the group.
Analyze ==
    /\ analysis = None
    /\ group # <<>>
    /\ analysis' = Some(from_group(group))
    /\ UNCHANGED <<execVars, group, letterboxVars, pathVars>>

NextAnalyze == Analyze

SpecGps == InitGps /\ [][NextAnalyze]_vars

SpecStr == InitStr /\ [][NextAnalyze]_vars

SpecScore == InitScore /\ [][NextAnalyze]_vars

(***************************************************************************)
(* Properties of from_group and detect_conflicts.                          *)
(***************************************************************************)
Analysed == Unwrap(analysis)

Indices == 1..Len(group)

Total(k) == from_asset(group[k]).total

Size(k) ==
    IF group[k].exif_info = None THEN 0
    ELSE unwrap_or(Unwrap(group[k].exif_info).file_size_in_byte, 0)

TopScored == {k \in Indices : \A j \in Indices : Total(k) >= Total(j)}

TopSized == {k \in TopScored : \A j \in TopScored : Size(k) >= Size(j)}

\* C6: among the assets that tie for the maximum score.total the winner is the
\* one with the largest file size (absent counting as 0), and among those still
\* tied the first in input order.
TieBrokenBySizeThenOrder ==
    IsSome(analysis) =>
        \E k \in TopSized :
            /\ Analysed.winner.asset_id = group[k].id
            /\ \A j \in TopSized : k <= j

\* Three assets tie on score, two of them on the largest size, neither first.
TieOnScoreAndSize ==
    /\ IsSome(analysis)
    /\ Cardinality(TopScored) >= 3
    /\ Cardinality(TopSized) = 2
    /\ 1 \notin TopSized

HasConflict(kind) ==
    \E c \in 1..Len(Analysed.conflicts) : Analysed.conflicts[c].type = kind

\* C7: needs_review is true exactly when conflicts is non-empty, conflicts
\* being those of the group's original asset list; a single-asset group has
\* needs_review false.
NeedsReviewIffConflicts ==
    IsSome(analysis) =>
        /\ Analysed.needs_review <=> (Analysed.conflicts # <<>>)
        /\ Analysed.conflicts = detect_conflicts(group)
        /\ Len(group) = 1 => ~Analysed.needs_review

\* One conflict in a group whose winner is not the first asset.
ReviewNeededForOneConflict ==
    /\ IsSome(analysis)
    /\ Analysed.needs_review
    /\ Len(Analysed.conflicts) = 1
    /\ Analysed.winner.asset_id # group[1].id

CarriesGps(k) ==
    /\ group[k].exif_info # None
    /\ Unwrap(group[k].exif_info).latitude # None
    /\ Unwrap(group[k].exif_info).longitude # None

Lat(k) == Unwrap(Unwrap(group[k].exif_info).latitude)

Lon(k) == Unwrap(Unwrap(group[k].exif_info).longitude)

\* C8: a Gps conflict is emitted if and only if two assets that both carry
\* latitude and longitude differ by more than GPS_THRESHOLD in latitude or in
\* longitude.
GpsConflictIffBeyondThreshold ==
    IsSome(analysis) =>
        (HasConflict("Gps") <=>
            \E i, j \in Indices :
                /\ CarriesGps(i)
                /\ CarriesGps(j)
                /\ \/ Lat(i) - Lat(j) > GPS_THRESHOLD
                   \/ Lon(i) - Lon(j) > GPS_THRESHOLD)

\* A Gps conflict in a group where two points are exactly GPS_THRESHOLD apart
\* in longitude and at the same latitude.
GpsConflictBesideClosePoints ==
    /\ IsSome(analysis)
    /\ HasConflict("Gps")
    /\ \E i, j \in Indices :
          /\ CarriesGps(i)
          /\ CarriesGps(j)
          /\ Lon(i) - Lon(j) = GPS_THRESHOLD
          /\ Lat(i) = Lat(j)

DistinctValues(kind, v, w) ==
    IF kind = "Gps" THEN ~WithinThreshold(v, w)
    ELSE to_lowercase(trim(v)) # to_lowercase(trim(w))

\* C9: every conflict emitted carries at least two values, pairwise distinct
\* after normalization (for Gps: no two within GPS_THRESHOLD of each other).
ConflictValuesDistinct ==
    IsSome(analysis) =>
        \A c \in 1..Len(Analysed.conflicts) :
            LET conflict == Analysed.conflicts[c]
            IN  /\ Len(conflict.values) >= 2
                /\ \A i, j \in 1..Len(conflict.values) :
                      i # j => DistinctValues(conflict.type, conflict.values[i],
                                              conflict.values[j])

Present(kind) ==
    IF kind = "Timezone" THEN
        {Unwrap(Unwrap(group[k].exif_info).time_zone) :
            k \in {i \in Indices : /\ group[i].exif_info # None
                                   /\ Unwrap(group[i].exif_info).time_zone # None}}
    ELSE IF kind = "CaptureTime" THEN
        {Unwrap(Unwrap(group[k].exif_info).date_time_original) :
            k \in {i \in Indices :
                      /\ group[i].exif_info # None
                      /\ Unwrap(group[i].exif_info).date_time_original # None}}
    ELSE SeqToSet(camera_values(group))

Fold(c) == CASE c = "A" -> "a" [] c = "B" -> "b" [] OTHER -> c

\* s from its first to its last character that is not a space, case-folded.
Normal(s) ==
    LET inked == {k \in 1..Len(s) : s[k] # " "}
        first == CHOOSE k \in inked : \A j \in inked : k <= j
        last == CHOOSE k \in inked : \A j \in inked : k >= j
    IN  IF inked = {} THEN <<>>
        ELSE [k \in 1..(last - first + 1) |-> Fold(s[first + k - 1])]

NormalValues(kind) == {Normal(v) : v \in Present(kind)}

StringKinds == {"Timezone", "CameraInfo", "CaptureTime"}

\* C10 as claimed: a string conflict is emitted if and only if the values
\* present contain at least two distinct values after trim and case-fold.
StringConflictIffTwoDistinct ==
    IsSome(analysis) =>
        \A kind \in StringKinds :
            HasConflict(kind) <=> Cardinality(NormalValues(kind)) >= 2

\* C10, amended: a string conflict is emitted if and only if the values
\* present contain at least two distinct non-empty values after trim and
\* case-fold; values that are empty after trimming take no part.
StringConflictIffTwoDistinctNonEmpty ==
    IsSome(analysis) =>
        \A kind \in StringKinds :
            HasConflict(kind) <=> Cardinality(NormalValues(kind) \ {<<>>}) >= 2

\* A Timezone conflict of two values among three assets with a time zone, two
\* of which differ only in case and surrounding whitespace.
TimezoneConflictWithCaseVariants ==
    /\ IsSome(analysis)
    /\ Len(group) = 3
    /\ Cardinality(Present("Timezone")) = 3
    /\ HasConflict("Timezone")
    /\ \A c \in 1..Len(Analysed.conflicts) :
          Analysed.conflicts[c].type = "Timezone" =>
              Len(Analysed.conflicts[c].values) = 2

(***************************************************************************)
(* Groups whose assets mix all four compared fields, some of them lacking  *)
(* a field or the whole EXIF block.                                        *)
(***************************************************************************)
MaxMixedAssets == 3

MixedExifOptions ==
    {None, Some(NoFields)} \cup
    {Some([NoFields EXCEPT !.latitude = lat, !.longitude = lon]) :
        <<lat, lon>> \in {<<Some(0), Some(0)>>, <<Some(18), Some(0)>>,
                          <<Some(9), Some(0)>>, <<Some(9), None>>}} \cup
    {Some([NoFields EXCEPT !.time_zone = Some(tz)]) : tz \in {<<"a">>, <<"b">>}} \cup
    {Some([NoFields EXCEPT !.make = Some(<<"a">>)]),
     Some([NoFields EXCEPT !.model = Some(<<"b">>)])} \cup
    {Some([NoFields EXCEPT !.date_time_original = Some(dto)]) :
        dto \in {<<"a">>, <<"b">>}} \cup
    {Some([NoFields EXCEPT !.latitude = Some(0), !.longitude = Some(20),
                           !.time_zone = Some(<<"A">>), !.make = Some(<<"b">>),
                           !.date_time_original = Some(<<"B">>)])}

InitMixed ==
    /\ NoExec
    /\ NoLetterbox
    /\ NoPaths
    /\ analysis = None
    /\ \E n \in 1..MaxMixedAssets : group \in Groups(n, MixedExifOptions)

SpecMixed == InitMixed /\ [][NextAnalyze]_vars

ConflictKinds == {"Gps", "Timezone", "CameraInfo", "CaptureTime"}

\* The conflicts of one kind among the reported conflicts.
ConflictFor(kind, conflicts) ==
    LET OfKind(c) == c.type = kind IN SelectSeq(conflicts, OfKind)

\* The group without its k-th asset.
Without(assets, k) ==
    [j \in 1..(Len(assets) - 1) |-> IF j < k THEN assets[j] ELSE assets[j + 1]]

\* The asset has no EXIF block, or the field of the comparison is absent.
LacksField(kind, a) ==
    \/ a.exif_info = None
    \/ LET e == Unwrap(a.exif_info)
       IN  CASE kind = "Gps" -> e.latitude = None \/ e.longitude = None
             [] kind = "Timezone" -> e.time_zone = None
             [] kind = "CameraInfo" -> e.make = None /\ e.model = None
             [] kind = "CaptureTime" -> e.date_time_original = None

\* C11: an asset that lacks a field (no EXIF block, or the field absent)
\* takes no part in that field's comparison: the conflict reported for the
\* field is the same with the asset in the group as without it.
LackingAssetTakesNoPart ==
    IsSome(analysis) =>
        \A kind \in ConflictKinds : \A k \in Indices :
            LacksField(kind, group[k]) =>
                ConflictFor(kind, Analysed.conflicts)
                    = ConflictFor(kind, detect_conflicts(Without(group, k)))

\* A GPS conflict is reported for a group whose middle asset has a latitude
\* but no longitude.
ConflictAroundLackingAsset ==
    /\ IsSome(analysis)
    /\ Len(group) = 3
    /\ group[2].exif_info # None
    /\ IsSome(Unwrap(group[2].exif_info).latitude)
    /\ LacksField("Gps", group[2])
    /\ HasConflict("Gps")

(***************************************************************************)
(* Single assets over every combination of present and absent EXIF fields  *)
(* that the has_* helpers read.                                            *)
(***************************************************************************)
Presence(v) == {None, Some(v)}

FieldExifOptions ==
    {None} \cup
    {Some(ExifInfo(lat, lon, tz, mk, mdl, dto, lens, cty, ctry, None, None, None, None)) :
        lat \in Presence(0), lon \in Presence(0), tz \in Presence(<<"a">>),
        mk \in Presence(<<"a">>), mdl \in Presence(<<"b">>),
        dto \in Presence(<<"a">>), lens \in Presence(<<"b">>),
        cty \in Presence(<<"a">>), ctry \in Presence(<<"b">>)}

InitFields ==
    /\ NoExec
    /\ NoLetterbox
    /\ NoPaths
    /\ analysis = None
    /\ group \in Groups(1, FieldExifOptions)

SpecFields == InitFields /\ [][NextAnalyze]_vars

\* C12: from_asset gives each category 0 or its fixed weight (gps 30,
\* timezone 20, camera_info 15, capture_time 15, lens_info 10, location 10),
\* total is the sum of the six categories (so between 0 and 100), and an
\* asset without an EXIF block scores 0 in every category.
ScoreIsWeightedSum ==
    IsSome(analysis) =>
        LET score == Analysed.winner.score
        IN  /\ score = from_asset(group[1])
            /\ score.gps \in {0, 30}
            /\ score.timezone \in {0, 20}
            /\ score.camera_info \in {0, 15}
            /\ score.capture_time \in {0, 15}
            /\ score.lens_info \in {0, 10}
            /\ score.location \in {0, 10}
            /\ score.total = score.gps + score.timezone + score.camera_info
                               + score.capture_time + score.lens_info
                               + score.location
            /\ score.total >= 0
            /\ score.total <= 100
            /\ group[1].exif_info = None =>
                  /\ score.total = 0
                  /\ score.gps = 0 /\ score.timezone = 0 /\ score.camera_info = 0
                  /\ score.capture_time = 0 /\ score.lens_info = 0
                  /\ score.location = 0

\* An asset with every category present has been scored: each category has
\* its weight and the total is 100.
EveryCategoryScored ==
    /\ IsSome(analysis)
    /\ Analysed.winner.score
         = [gps |-> 30, timezone |-> 20, camera_info |-> 15, capture_time |-> 15,
            lens_info |-> 10, location |-> 10, total |-> 100]

(***************************************************************************)
(* The rate gate: Executor::new and Executor::rate_limited.                *)
(*                                                                         *)
(* The limiter is built from Quota::per_second(n): it hands out up to n    *)
(* cells at once and replenishes one cell every 1/n second.  Time is       *)
(* counted in these replenish intervals.  The semaphore holds              *)
(* max_concurrent permits.  A task calling rate_limited waits in           *)
(* until_ready for a cell, then in acquire for a permit, then awaits the   *)
(* operation, and drops the permit when rate_limited returns.              *)
(***************************************************************************)
MaxCallers == 2

MaxGateCalls == 2

RateCalls == 25

DefaultRequestsPerSec == 10

DefaultMaxConcurrent == 5

FallbackRequestsPerSec == 10

\* The remote calls the Executor wraps in rate_limited.
CallKinds ==
    {"get_asset", "update_asset_metadata", "get_albums_for_asset",
     "add_assets_to_album", "remove_assets_from_album", "download_asset",
     "delete_assets"}

\* NonZeroU32::new(config.requests_per_sec).unwrap_or(nonzero!(10u32))
quota(n) == IF n = 0 THEN FallbackRequestsPerSec ELSE n

IdleCaller == [pc |-> "idle", kind |-> None, result |-> None, log |-> <<>>]

Min(a, b) == IF a <= b THEN a ELSE b

\* Executor::new for a configuration, and a driver of n tasks making calls
\* rate_limited calls in all.
NewExecutor(rate, permits, n, calls) ==
    /\ requests_per_sec = rate
    /\ max_concurrent = permits
    /\ rate_limiter = quota(rate)
    /\ concurrency = permits
    /\ clock = 0
    /\ budget = calls
    /\ issued = 0
    /\ completed = 0
    /\ callers = [c \in 1..n |-> IdleCaller]

InitGate ==
    /\ NoPipeline
    /\ NoConsol
    /\ NoTransfer
    /\ NoRun
    /\ NoScore
    /\ \E rate \in 1..2 : \E permits \in 0..2 : \E n \in 1..MaxCallers :
          NewExecutor(rate, permits, n, MaxGateCalls)

InitRate ==
    /\ NoPipeline
    /\ NoConsol
    /\ NoTransfer
    /\ NoRun
    /\ NoScore
    /\ NewExecutor(DefaultRequestsPerSec, DefaultMaxConcurrent, 1, RateCalls)

\* A task calls rate_limited with an operation of some kind.
RateLimitedEnter(c) ==
    /\ callers[c].pc = "idle"
    /\ issued < budget
    /\ \E kind \in CallKinds :
          callers' = [callers EXCEPT ![c] = [pc |-> "until_ready",
                                             kind |-> Some(kind),
                                             result |-> None, log |-> <<>>]]
    /\ issued' = issued + 1
    /\ UNCHANGED <<requests_per_sec, max_concurrent, rate_limiter, concurrency,
                   clock, budget, completed>>

\* self.rate_limiter.until_ready().await returns: a cell is taken.
UntilReady(c) ==
    /\ callers[c].pc = "until_ready"
    /\ rate_limiter > 0
    /\ rate_limiter' = rate_limiter - 1
    /\ callers' = [callers EXCEPT ![c].pc = "acquire",
                                  ![c].log = Append(@, "token")]
    /\ UNCHANGED <<requests_per_sec, max_concurrent, concurrency, clock,
                   budget, issued, completed>>

\* self.concurrency.acquire().await returns: a permit is taken.
AcquirePermit(c) ==
    /\ callers[c].pc = "acquire"
    /\ concurrency > 0
    /\ concurrency' = concurrency - 1
    /\ callers' = [callers EXCEPT ![c].pc = "op", ![c].log = Append(@, "permit")]
    /\ UNCHANGED <<requests_per_sec, max_concurrent, rate_limiter, clock,
                   budget, issued, completed>>

\* op.await starts the remote call.
StartCall(c) ==
    /\ callers[c].pc = "op"
    /\ callers' = [callers EXCEPT ![c].pc = "in_flight",
                                  ![c].log = Append(@, "start")]
    /\ UNCHANGED <<requests_per_sec, max_concurrent, rate_limiter, concurrency,
                   clock, budget, issued, completed>>

\* The remote call ends with Ok only: on Err the permit stays with the task.
RateLimitedReturnLeaking(c) ==
    /\ callers[c].pc = "in_flight"
    /\ \E ok \in BOOLEAN :
          /\ callers' = [callers EXCEPT
                           ![c].pc = "idle", ![c].result = Some(ok),
                           ![c].log = IF ok THEN @ \o <<"end", "release">>
                                      ELSE @ \o <<"end">>]
          /\ concurrency' = IF ok THEN concurrency + 1 ELSE concurrency
    /\ completed' = completed + 1
    /\ UNCHANGED <<requests_per_sec, max_concurrent, rate_limiter, clock,
                   budget, issued>>

\* The remote call ends, with Ok or Err; rate_limited returns its result and
\* _permit is dropped.
RateLimitedReturn(c) ==
    /\ callers[c].pc = "in_flight"
    /\ \E ok \in BOOLEAN :
          callers' = [callers EXCEPT ![c].pc = "idle", ![c].result = Some(ok),
                                     ![c].log = @ \o <<"end", "release">>]
    /\ concurrency' = concurrency + 1
    /\ completed' = completed + 1
    /\ UNCHANGED <<requests_per_sec, max_concurrent, rate_limiter, clock,
                   budget, issued>>

\* One replenish interval passes and the limiter is reset to its full burst.
ClockTickBatchReset ==
    /\ clock < budget
    /\ clock' = clock + 1
    /\ rate_limiter' = quota(requests_per_sec)
    /\ UNCHANGED <<requests_per_sec, max_concurrent, concurrency, budget,
                   issued, completed, callers>>

\* One replenish interval passes: the limiter regains a cell, up to its burst.
ClockTick ==
    /\ clock < budget
    /\ clock' = clock + 1
    /\ rate_limiter' = Min(quota(requests_per_sec), rate_limiter + 1)
    /\ UNCHANGED <<requests_per_sec, max_concurrent, concurrency, budget,
                   issued, completed, callers>>

NextGate ==
    /\ \/ ClockTick
       \/ \E c \in DOMAIN callers :
             \/ RateLimitedEnter(c)
             \/ UntilReady(c)
             \/ AcquirePermit(c)
             \/ StartCall(c)
             \/ RateLimitedReturn(c)
    /\ UNCHANGED <<configVars, runVars, consolVars, transferVars, inputVars, albumVars,
                   resultVars, callVars, pc, idx, functionVars>>

SpecGate == InitGate /\ [][NextGate]_vars

SpecRate == InitRate /\ [][NextGate]_vars

(***************************************************************************)
(* Properties of the rate gate.                                            *)
(***************************************************************************)
IsPrefix(s, t) == Len(s) <= Len(t) /\ \A k \in 1..Len(s) : s[k] = t[k]

GateOrder == <<"token", "permit", "start", "end", "release">>

HoldsPermit(c) ==
    /\ \E k \in 1..Len(callers[c].log) : callers[c].log[k] = "permit"
    /\ \A k \in 1..Len(callers[c].log) : callers[c].log[k] # "release"

\* C13: every call to the remote service first obtains a rate token, then a
\* concurrency permit, only then starts, and gives the permit back when it
\* ends, whether it succeeded or failed; the rate token is never given back
\* (the limiter gains cells only by the passing of time).
TokenThenPermitThenCall ==
    /\ [](\A c \in DOMAIN callers :
            /\ IsPrefix(callers[c].log, GateOrder)
            /\ callers[c].pc = "in_flight" => HoldsPermit(c)
            /\ IsSome(callers[c].result) =>
                  callers[c].pc = "idle" /\ callers[c].log = GateOrder)
    /\ [](concurrency + Cardinality({c \in DOMAIN callers : HoldsPermit(c)})
            = max_concurrent)
    /\ [][rate_limiter' > rate_limiter => clock' = clock + 1]_vars
    /\ [][\A c \in DOMAIN callers :
            (callers[c].pc # "in_flight" /\ callers'[c].pc = "in_flight") =>
                /\ Unwrap(callers[c].kind) \in CallKinds
                /\ callers[c].log = <<"token", "permit">>]_vars

\* A remote call has failed and its permit is back while the call of another
\* task is in flight.
FailedCallGavePermitBack ==
    \E c \in DOMAIN callers : \E d \in DOMAIN callers :
        /\ callers[c].result = Some(FALSE)
        /\ callers[c].pc = "idle"
        /\ callers[d].pc = "in_flight"
        /\ concurrency = max_concurrent - 1

MaxConsolLosers == 2

Letters == <<"a", "b", "A", "B", " ">>

\* The string value asset id holds in a field.
StringOf(id) == <<Letters[id + 1]>>

NoExif == {"no_exif"}

\* The EXIF block of asset id when it holds the given fields.
ExifWith(id, fields) ==
    IF fields = NoExif THEN None
    ELSE Some([NoFields EXCEPT
                 !.latitude = IF "latitude" \in fields THEN Some(id) ELSE None,
                 !.longitude = IF "longitude" \in fields THEN Some(id) ELSE None,
                 !.date_time_original =
                     IF "date_time_original" \in fields THEN Some(StringOf(id))
                     ELSE None,
                 !.description =
                     IF "description" \in fields THEN Some(StringOf(id)) ELSE None])

WinnerFieldOptions ==
    {NoExif,
     {"latitude"},
     {"latitude", "longitude"},
     {"date_time_original"},
     {"latitude", "longitude", "date_time_original", "description"}}

LoserFieldOptions ==
    {NoExif,
     {"latitude", "longitude"},
     {"latitude", "date_time_original", "description"},
     {"latitude", "longitude", "date_time_original", "description"}}

InitConsol ==
    /\ NoGate
    /\ NoTransfer
    /\ NoRun
    /\ NoScore
    /\ preserve_albums \in BOOLEAN
    /\ force_delete = FALSE
    /\ duplicate_id = "group"
    /\ winner_id = WinnerId
    /\ \E n \in 0..MaxConsolLosers :
          /\ losers = LoserIds(n)
          /\ albums_of = [l \in 1..n |-> {1}]
          /\ \E w \in WinnerFieldOptions : \E f \in [1..n -> LoserFieldOptions] :
                remote_assets = [id \in 0..n |-> IF id = WinnerId
                                                 THEN ExifWith(id, w)
                                                 ELSE ExifWith(id, f[id])]
    /\ winner_has = None
    /\ best_gps = None
    /\ best_datetime = None
    /\ best_description = None
    /\ get_asset_calls = <<>>
    /\ update_calls = <<>>
    /\ pc = "Consolidating"
    /\ idx = 1
    /\ consolidation_result = None
    /\ albums_to_transfer = {}
    /\ pending_albums = {}
    /\ had_failures = FALSE
    /\ error_messages = <<>>
    /\ transferred_albums = <<>>
    /\ album_transfer_result = None
    /\ download_results = <<>>
    /\ delete_result = None
    /\ group_result = None
    /\ download_calls = <<>>
    /\ delete_calls = <<>>
    /\ remote_calls = <<>>

ConsolidationResult(gps, datetime, description, source) ==
    [gps_transferred |-> gps, datetime_transferred |-> datetime,
     description_transferred |-> description, source_asset_id |-> source]

\* consolidate_metadata returns; its locals are dropped and execute_group
\* goes on to its next step.
ReturnConsolidation(result) ==
    /\ consolidation_result' = result
    /\ pc' = IF preserve_albums THEN "GetAlbums" ELSE "Deciding"
    /\ idx' = 1
    /\ winner_has' = None
    /\ best_gps' = None
    /\ best_datetime' = None
    /\ best_description' = None

\* What the winner already has, from the asset the fetch returned.
winner_has_of(exif_info) ==
    [gps |-> IF exif_info = None THEN FALSE ELSE has_gps(Unwrap(exif_info)),
     datetime |-> IF exif_info = None THEN FALSE
                  ELSE IsSome(Unwrap(exif_info).date_time_original),
     description |-> IF exif_info = None THEN FALSE
                     ELSE IsSome(Unwrap(exif_info).description)]

\* The fetch of the winner, and the decision whether to scan the losers.
GetWinner ==
    /\ pc = "Consolidating"
    /\ \E ok \in BOOLEAN :
          /\ get_asset_calls' = Append(get_asset_calls, [id |-> winner_id, ok |-> ok])
          /\ IF ~ok
             THEN ReturnConsolidation(None)
             ELSE LET has == winner_has_of(remote_assets[winner_id])
                  IN  IF (has.gps /\ has.datetime /\ has.description) \/ losers = <<>>
                      THEN ReturnConsolidation(None)
                      ELSE /\ winner_has' = Some(has)
                           /\ pc' = "ScanningLosers"
                           /\ idx' = 1
                           /\ UNCHANGED <<consolidation_result, best_gps,
                                          best_datetime, best_description>>
    /\ Called("consolidation")
    /\ UNCHANGED <<configVars, runVars, gateVars, transferVars, inputVars, albumVars,
                   download_results, delete_result, group_result, download_calls, delete_calls,
                   functionVars, remote_assets,
                   update_calls>>

\* The three checks of the loop body on the EXIF block of a fetched loser.
check_gps_last_wins(winner_has_gps, best, exif, id) ==
    IF ~winner_has_gps /\ has_gps(exif)
    THEN Some(<<Unwrap(exif.latitude), Unwrap(exif.longitude), id>>)
    ELSE best

check_gps(winner_has_gps, best, exif, id) ==
    IF ~winner_has_gps /\ best = None /\ has_gps(exif)
    THEN Some(<<Unwrap(exif.latitude), Unwrap(exif.longitude), id>>)
    ELSE best

\* What the winner has is not looked at.
check_datetime_whatever_winner_has(winner_has_datetime, best, exif, id) ==
    IF best = None /\ IsSome(exif.date_time_original)
    THEN Some(<<Unwrap(exif.date_time_original), id>>)
    ELSE best

check_datetime(winner_has_datetime, best, exif, id) ==
    IF ~winner_has_datetime /\ best = None /\ IsSome(exif.date_time_original)
    THEN Some(<<Unwrap(exif.date_time_original), id>>)
    ELSE best

check_description(winner_has_description, best, exif, id) ==
    IF ~winner_has_description /\ best = None /\ IsSome(exif.description)
    THEN Some(<<Unwrap(exif.description), id>>)
    ELSE best

\* One iteration of the loop over the losers, and what follows the loop when
\* this iteration is the last one.
GetLoser ==
    /\ pc = "ScanningLosers"
    /\ idx <= Len(losers)
    /\ \E ok \in BOOLEAN :
          /\ get_asset_calls' = Append(get_asset_calls, [id |-> losers[idx], ok |-> ok])
          /\ LET has == Unwrap(winner_has)
                 exif_info == remote_assets[losers[idx]]
                 seen == ok /\ exif_info # None
                 gps == IF seen
                        THEN check_gps(has.gps, best_gps, Unwrap(exif_info), losers[idx])
                        ELSE best_gps
                 datetime == IF seen
                             THEN check_datetime(has.datetime, best_datetime,
                                                 Unwrap(exif_info), losers[idx])
                             ELSE best_datetime
                 description == IF seen
                                THEN check_description(has.description, best_description,
                                                       Unwrap(exif_info), losers[idx])
                                ELSE best_description
                 found_all == /\ has.gps \/ IsSome(gps)
                              /\ has.datetime \/ IsSome(datetime)
                              /\ has.description \/ IsSome(description)
             IN  IF ~(ok /\ found_all) /\ idx < Len(losers)
                 THEN /\ best_gps' = gps
                      /\ best_datetime' = datetime
                      /\ best_description' = description
                      /\ idx' = idx + 1
                      /\ UNCHANGED <<pc, winner_has, consolidation_result>>
                 ELSE IF gps = None /\ datetime = None /\ description = None
                 THEN ReturnConsolidation(None)
                 ELSE /\ best_gps' = gps
                      /\ best_datetime' = datetime
                      /\ best_description' = description
                      /\ pc' = "UpdatingWinner"
                      /\ UNCHANGED <<idx, winner_has, consolidation_result>>
    /\ Called("consolidation")
    /\ UNCHANGED <<configVars, runVars, gateVars, transferVars, inputVars, albumVars,
                   download_results, delete_result, group_result, download_calls, delete_calls,
                   functionVars, remote_assets,
                   update_calls>>

source_asset_id_datetime_first(gps, datetime, description) ==
    IF IsSome(datetime) THEN Some(Unwrap(datetime)[2])
    ELSE IF IsSome(gps) THEN Some(Unwrap(gps)[3])
    ELSE IF IsSome(description) THEN Some(Unwrap(description)[2])
    ELSE None

\* Prefer the GPS source, then datetime, then description.
source_asset_id(gps, datetime, description) ==
    IF IsSome(gps) THEN Some(Unwrap(gps)[3])
    ELSE IF IsSome(datetime) THEN Some(Unwrap(datetime)[2])
    ELSE IF IsSome(description) THEN Some(Unwrap(description)[2])
    ELSE None

\* The update request built from what was found.
UpdateRequest(ok) ==
    [id |-> winner_id,
     latitude |-> IF IsSome(best_gps) THEN Some(Unwrap(best_gps)[1]) ELSE None,
     longitude |-> IF IsSome(best_gps) THEN Some(Unwrap(best_gps)[2]) ELSE None,
     date_time_original |->
         IF IsSome(best_datetime) THEN Some(Unwrap(best_datetime)[1]) ELSE None,
     description |->
         IF IsSome(best_description) THEN Some(Unwrap(best_description)[1]) ELSE None,
     ok |-> ok]

FoundResult ==
    ConsolidationResult(IsSome(best_gps), IsSome(best_datetime),
                        IsSome(best_description),
                        source_asset_id(best_gps, best_datetime, best_description))

\* The update reports what was found whether or not the call succeeded.
UpdateWinnerIgnoringError ==
    /\ pc = "UpdatingWinner"
    /\ \E ok \in BOOLEAN :
          /\ update_calls' = Append(update_calls, UpdateRequest(ok))
          /\ ReturnConsolidation(Some(FoundResult))
    /\ Called("consolidation")
    /\ UNCHANGED <<configVars, runVars, gateVars, transferVars, inputVars, albumVars,
                   download_results, delete_result, group_result, download_calls, delete_calls,
                   functionVars, remote_assets,
                   get_asset_calls>>

\* The one update_asset_metadata call and the result of consolidate_metadata.
UpdateWinner ==
    /\ pc = "UpdatingWinner"
    /\ \E ok \in BOOLEAN :
          /\ update_calls' = Append(update_calls, UpdateRequest(ok))
          /\ ReturnConsolidation(IF ok THEN Some(FoundResult) ELSE None)
    /\ Called("consolidation")
    /\ UNCHANGED <<configVars, runVars, gateVars, transferVars, inputVars, albumVars,
                   download_results, delete_result, group_result, download_calls, delete_calls,
                   functionVars, remote_assets,
                   get_asset_calls>>

NextConsol ==
    \/ GetWinner
    \/ GetLoser
    \/ UpdateWinner
    \/ GetAlbumsForAsset
    \/ AlbumsCollected
    \/ TransferAlbum
    \/ AlbumsTransferred
    \/ Decide
    \/ DownloadLoser
    \/ DeleteAssets

SpecConsol == InitConsol /\ [][NextConsol]_vars

(***************************************************************************)
(* Properties of consolidate_metadata.                                     *)
(***************************************************************************)
ConsolFields == {"gps", "datetime", "description"}

\* The remote service holds the field for the asset.
HasField(id, field) ==
    /\ remote_assets[id] # None
    /\ LET e == Unwrap(remote_assets[id])
       IN  CASE field = "gps" -> e.latitude # None /\ e.longitude # None
             [] field = "datetime" -> e.date_time_original # None
             [] field = "description" -> e.description # None

FieldValue(id, field) ==
    LET e == Unwrap(remote_assets[id])
    IN  CASE field = "gps" -> <<e.latitude, e.longitude>>
          [] field = "datetime" -> e.date_time_original
          [] field = "description" -> e.description

FetchFailed(id) ==
    \E k \in 1..Len(get_asset_calls) : get_asset_calls[k] = [id |-> id, ok |-> FALSE]

\* The loser has the field, as far as the Executor can see: its fetch did not
\* fail.
Supplies(k, field) == HasField(losers[k], field) /\ ~FetchFailed(losers[k])

FirstSupplier(field) ==
    CHOOSE k \in 1..Len(losers) :
        Supplies(k, field) /\ \A j \in 1..(k - 1) : ~Supplies(j, field)

SentUpdate == update_calls[1]

\* What the update request carries for a field, if anything.
SentValue(field) ==
    CASE field = "gps" ->
            IF SentUpdate.latitude = None /\ SentUpdate.longitude = None THEN None
            ELSE Some(<<SentUpdate.latitude, SentUpdate.longitude>>)
      [] field = "datetime" ->
            IF SentUpdate.date_time_original = None THEN None
            ELSE Some(SentUpdate.date_time_original)
      [] field = "description" ->
            IF SentUpdate.description = None THEN None
            ELSE Some(SentUpdate.description)

ConsolidationReturned ==
    pc \notin {"Consolidating", "ScanningLosers", "UpdatingWinner"}

WinnerFetchFailed == FetchFailed(winner_id)

LoserFetchFailed == \E k \in 1..Len(losers) : FetchFailed(losers[k])

UpdateFailed == update_calls # <<>> /\ ~SentUpdate.ok

ShortCircuited ==
    /\ IsSome(album_transfer_result)
    /\ Unwrap(album_transfer_result).had_failures

\* After a failure in consolidation the group is never stuck, and it ends
\* with the album-transfer, download and delete steps carried out.
PipelineGoesOn ==
    (WinnerFetchFailed \/ LoserFetchFailed \/ UpdateFailed) =>
        /\ pc # "Done" => ENABLED NextConsol
        /\ pc = "Done" =>
              /\ IsSome(group_result)
              /\ preserve_albums => IsSome(album_transfer_result)
              /\ ~ShortCircuited =>
                    /\ Len(download_calls) = Len(losers)
                    /\ IsSome(delete_result)
                    /\ delete_calls # <<>> <=> HasSuccess(download_results)

\* C16, as claimed: a failure of the winner fetch, of any loser fetch or of
\* the metadata update never aborts the group: consolidation then yields no
\* result and the pipeline still goes on to the later steps.
FailedConsolidationYieldsNoResult ==
    /\ (ConsolidationReturned
          /\ (WinnerFetchFailed \/ LoserFetchFailed \/ UpdateFailed)) =>
            consolidation_result = None
    /\ PipelineGoesOn

\* C16, amended: after a failed winner fetch or a failed metadata update
\* consolidation yields no result; a failed loser fetch only skips that
\* loser; in every case the pipeline still goes on to the later steps.
FailedConsolidationNeverAborts ==
    /\ (ConsolidationReturned /\ (WinnerFetchFailed \/ UpdateFailed)) =>
            consolidation_result = None
    /\ PipelineGoesOn

\* A loser's fetch failed, consolidation still yielded a result from another
\* loser, and the group went on to delete.
ConsolidatedDespiteFailedLoserFetch ==
    /\ pc = "Done"
    /\ LoserFetchFailed
    /\ IsSome(consolidation_result)
    /\ delete_calls # <<>>

MaxTransferLosers == 2

MAX_DURATION == 240

INITIAL_DELAY == 1

CallDurations == {0, 1, 300}

\* Result<T> of a remote call: Ok, ImmichError::Api { status, message }, or
\* another ImmichError (Http).
OkResponse == [type |-> "Ok"]

ApiError(status, message) ==
    [type |-> "Api", status |-> status, message |-> message]

HttpError == [type |-> "Http"]

Duplicate == <<"d", "u", "p", "l", "i", "c", "a", "t", "e">>

Already == <<"a", "l", "r", "e", "a", "d", "y">>

ErrorMessages ==
    {<<>>,
     Duplicate,
     <<"D", "u", "p", "l", "i", "c", "a", "t", "e", " ", "i", "d">>,
     <<"i", "s", " ">> \o Already,
     <<"A", "L", "R", "E", "A", "D", "Y">>,
     <<"n", "o", "t", " ", "f", "o", "u", "n", "d">>}

AddResponses ==
    {OkResponse, HttpError}
        \cup {ApiError(status, message) : status \in {400, 500},
                                          message \in ErrorMessages}

\* str::contains
str_contains(s, pattern) ==
    \E i \in 0..(Len(s) - Len(pattern)) :
        \A k \in 1..Len(pattern) : s[i + k] = pattern[k]

InitTransfer ==
    /\ NoGate
    /\ NoConsol
    /\ NoRun
    /\ NoScore
    /\ preserve_albums = TRUE
    /\ force_delete = FALSE
    /\ duplicate_id = "group"
    /\ winner_id = WinnerId
    /\ \E n \in 1..MaxTransferLosers : losers = LoserIds(n)
    /\ albums_of = <<>>
    /\ pc = "TransferAlbums"
    /\ idx = 1
    /\ consolidation_result = None
    /\ albums_to_transfer = {}
    /\ pending_albums = {}
    /\ had_failures = FALSE
    /\ error_messages = <<>>
    /\ transferred_albums = <<>>
    /\ album_transfer_result = None
    /\ download_results = <<>>
    /\ delete_result = None
    /\ group_result = None
    /\ download_calls = <<>>
    /\ delete_calls = <<>>
    /\ remote_calls = <<>>
    /\ transfer_pc = "Add"
    /\ current_album = Some(1)
    /\ elapsed = 0
    /\ delay = INITIAL_DELAY
    /\ attempts = 1
    /\ add_result = None
    /\ remove_result = None
    /\ attempt_result = None
    /\ attempt_calls = <<>>
    /\ last_sleep = None
    /\ transfer_returned = None

\* Only the status decides: every 400 is let through.
add_error_propagates_unless_400(e) ==
    IF e.type = "Api" THEN e.status # 400 ELSE TRUE

\* No error of the add call ends the attempt.
add_error_never_propagates(e) == FALSE

\* Whether try_transfer_album returns the error of the add call.
add_error_propagates(e) ==
    IF e.type = "Api"
    THEN \/ e.status # 400
         \/ /\ ~str_contains(to_lowercase(e.message), Duplicate)
            /\ ~str_contains(to_lowercase(e.message), Already)
    ELSE TRUE

\* try_transfer_album: add the winner to the album.
AddWinner ==
    /\ transfer_pc = "Add"
    /\ \E d \in CallDurations : elapsed' = elapsed + d
    /\ attempt_calls' =
          Append(attempt_calls, [op |-> "add_assets_to_album",
                                 album |-> Unwrap(current_album),
                                 ids |-> <<winner_id>>])
    /\ \E r \in AddResponses :
          /\ add_result' = Some(r)
          /\ IF r.type # "Ok" /\ add_error_propagates(r)
             THEN /\ attempt_result' = Some(FALSE)
                  /\ transfer_pc' = "AttemptFailed"
             ELSE /\ transfer_pc' = "Remove"
                  /\ UNCHANGED attempt_result
    /\ UNCHANGED <<configVars, runVars, gateVars, consolVars, inputVars, albumVars,
                   resultVars, callVars, pc, idx, functionVars, current_album, delay,
                   attempts, remove_result, last_sleep, transfer_returned>>

\* try_transfer_album: remove the losers from the album; on Ok
\* transfer_single_album returns true.
RemoveLosers ==
    /\ transfer_pc = "Remove"
    /\ \E d \in CallDurations : elapsed' = elapsed + d
    /\ attempt_calls' =
          Append(attempt_calls, [op |-> "remove_assets_from_album",
                                 album |-> Unwrap(current_album),
                                 ids |-> losers])
    /\ \E ok \in BOOLEAN :
          /\ remove_result' = Some(ok)
          /\ attempt_result' = Some(ok)
          /\ IF ok
             THEN /\ transfer_pc' = "Returned"
                  /\ transfer_returned' = Some(TRUE)
             ELSE /\ transfer_pc' = "AttemptFailed"
                  /\ UNCHANGED transfer_returned
    /\ UNCHANGED <<configVars, runVars, gateVars, consolVars, inputVars, albumVars,
                   resultVars, callVars, pc, idx, functionVars, current_album, delay,
                   attempts, add_result, last_sleep>>

\* The sleep is the whole delay, whatever budget remains.
sleep_duration_unclamped(current_delay, remaining) == current_delay

\* delay.min(remaining)
sleep_duration_of(current_delay, remaining) == Min(current_delay, remaining)

\* MAX_DURATION.saturating_sub(elapsed)
saturating_sub(a, b) == IF a >= b THEN a - b ELSE 0

\* What the clock may show at a second start.elapsed() that follows a first
\* one: the same time, or the next unit when the two reads straddle it.
LaterReads(first) == {first, first + 1}

\* transfer_single_album after a failed attempt: give up, or sleep and start
\* the next attempt.  start.elapsed() is read twice: for the check against
\* MAX_DURATION, and for the remaining time.
Backoff ==
    /\ transfer_pc = "AttemptFailed"
    /\ IF elapsed >= MAX_DURATION
       THEN /\ transfer_pc' = "Returned"
            /\ transfer_returned' = Some(FALSE)
            /\ UNCHANGED <<elapsed, delay, attempts, add_result, remove_result,
                           attempt_result, attempt_calls, last_sleep>>
       ELSE \E second \in LaterReads(elapsed) :
            LET remaining == saturating_sub(MAX_DURATION, second)
                sleep_duration == sleep_duration_of(delay, remaining)
            IN  IF sleep_duration = 0
                THEN /\ transfer_pc' = "Returned"
                     /\ transfer_returned' = Some(FALSE)
                     /\ elapsed' = second
                     /\ UNCHANGED <<delay, attempts, add_result,
                                    remove_result, attempt_result, attempt_calls,
                                    last_sleep>>
                ELSE /\ last_sleep' = Some(sleep_duration)
                     /\ elapsed' = second + sleep_duration
                     /\ delay' = delay * 2
                     /\ attempts' = attempts + 1
                     /\ add_result' = None
                     /\ remove_result' = None
                     /\ attempt_result' = None
                     /\ attempt_calls' = <<>>
                     /\ transfer_pc' = "Add"
                     /\ UNCHANGED transfer_returned
    /\ UNCHANGED <<configVars, runVars, gateVars, consolVars, inputVars, albumVars,
                   resultVars, callVars, pc, idx, functionVars, current_album>>

NextTransfer ==
    \/ AddWinner
    \/ RemoveLosers
    \/ Backoff

SpecTransfer == InitTransfer /\ [][NextTransfer]_vars

(***************************************************************************)
(* Properties of try_transfer_album.                                       *)
(***************************************************************************)
RemoveCalled ==
    \E k \in 1..Len(attempt_calls) : attempt_calls[k].op = "remove_assets_from_album"

\* The attempt went on to remove the losers and succeeded exactly if the
\* removal did.
TreatedAsSuccess ==
    /\ RemoveCalled
    /\ IsSome(remove_result)
    /\ attempt_result = remove_result

\* The attempt failed on the add call, without a removal.
FailedOnAdd ==
    /\ ~RemoveCalled
    /\ attempt_result = Some(FALSE)

AttemptEndedOnAddError ==
    /\ IsSome(attempt_result)
    /\ IsSome(add_result)
    /\ Unwrap(add_result).type # "Ok"

\* C18, as claimed: an add-winner response with status 400 whose message
\* contains "duplicate" or "already" is treated as success (the attempt goes
\* on to remove the losers and succeeds if that removal succeeds); any other
\* add error fails the attempt.
DuplicateAddIsSuccess ==
    AttemptEndedOnAddError =>
        LET e == Unwrap(add_result)
        IN  IF /\ e.type = "Api"
               /\ e.status = 400
               /\ str_contains(e.message, Duplicate) \/ str_contains(e.message, Already)
            THEN TreatedAsSuccess
            ELSE FailedOnAdd

\* C18, amended: the message is searched for "duplicate" and "already"
\* without regard to letter case.
DuplicateAddIsSuccessIgnoringCase ==
    AttemptEndedOnAddError =>
        LET e == Unwrap(add_result)
        IN  IF /\ e.type = "Api"
               /\ e.status = 400
               /\ \/ str_contains(to_lowercase(e.message), Duplicate)
                  \/ str_contains(to_lowercase(e.message), Already)
            THEN TreatedAsSuccess
            ELSE FailedOnAdd

\* An attempt succeeded after its add call was answered 400 with "ALREADY".
AttemptSucceededAfterUpperCaseAlready ==
    /\ attempt_result = Some(TRUE)
    /\ add_result = Some(ApiError(400, <<"A", "L", "R", "E", "A", "D", "Y">>))
    /\ RemoveCalled

(***************************************************************************)
(* Properties of transfer_albums.                                          *)
(***************************************************************************)
\* The albums whose transfer failed after retry, from the error summary.
FailedAlbums ==
    {error_messages[m].id :
        m \in {j \in 1..Len(error_messages) : error_messages[j].kind = "transfer"}}

\* The distinct album ids found by the lookups that succeeded.
AlbumsFound ==
    UNION {albums_of[losers[k]] :
             k \in {j \in 1..Len(losers) : ~LookupFailed(losers[j])}}

TransferLoopDone ==
    /\ IsSome(album_transfer_result)
    /\ albums_to_transfer # {}

\* C19: each distinct album id found among the losers' albums gets its own
\* transfer unit whatever the outcome of the other albums: an album still
\* failing after retry sets had_failures = true and is recorded in the error
\* summary, and the remaining albums are still attempted.
EveryAlbumAttempted ==
    /\ (pc = "TransferAlbums" /\ pending_albums # {}) => ENABLED TransferAlbum
    /\ pc = "TransferAlbums" =>
          /\ albums_to_transfer = AlbumsFound
          /\ SeqToSet(transferred_albums) \cup FailedAlbums \cup pending_albums
                = albums_to_transfer
          /\ FailedAlbums # {} => had_failures
    /\ TransferLoopDone =>
          LET result == Unwrap(album_transfer_result)
          IN  /\ SeqToSet(transferred_albums) \cup FailedAlbums = albums_to_transfer
              /\ SeqToSet(transferred_albums) \cap FailedAlbums = {}
              /\ Len(transferred_albums) + Cardinality(FailedAlbums)
                    = Cardinality(albums_to_transfer)
              /\ result.album_ids = transferred_albums
              /\ result.albums_transferred = Len(transferred_albums)
              /\ FailedAlbums # {} =>
                    /\ result.had_failures
                    /\ IsSome(result.error_message)
                    /\ \A a \in FailedAlbums :
                          \E m \in 1..Len(Unwrap(result.error_message)) :
                              Unwrap(result.error_message)[m]
                                  = [kind |-> "transfer", id |-> a]

\* Two albums were found; one failed after retry and the other one was
\* transferred.
OneAlbumFailedOtherTransferred ==
    /\ TransferLoopDone
    /\ Cardinality(albums_to_transfer) = 2
    /\ Cardinality(FailedAlbums) = 1
    /\ Len(transferred_albums) = 1

SomeLookupFailed == \E k \in 1..Len(losers) : LookupFailed(losers[k])

DownloadAndDeleteCarriedOut ==
    /\ download_calls = losers
    /\ IsSome(delete_result)
    /\ delete_calls # <<>> <=> HasSuccess(download_results)

TransferWithinSixtySeconds ==
    IsSome(transfer_returned) => elapsed <= MAX_DURATION

\* 250 ms * 2^(k-1), in units of 250 ms
NominalDelay(k) == INITIAL_DELAY * 2 ^ (k - 1)

ReturnsFailureWithoutSleeping ==
    /\ transfer_returned' = Some(FALSE)
    /\ transfer_pc' = "Returned"
    /\ last_sleep' = last_sleep
    /\ attempts' = attempts

SleepsThenAttemptsAgain(now, duration) ==
    /\ last_sleep' = Some(duration)
    /\ elapsed' = now + duration
    /\ attempts' = attempts + 1
    /\ transfer_pc' = "Add"
    /\ transfer_returned' = None

\* C22: after the k-th failed attempt the Executor sleeps
\* min(250 ms * 2^(k-1), 60 s - elapsed) before the next attempt; if 60 s have
\* already elapsed, or the remaining budget is zero, it returns failure at
\* once without sleeping.
BackoffSleepIsClampedDoubling ==
    [][transfer_pc = "AttemptFailed" =>
          IF elapsed >= MAX_DURATION
          THEN ReturnsFailureWithoutSleeping
          ELSE \E now \in LaterReads(elapsed) :
                  IF MAX_DURATION - now <= 0
                  THEN ReturnsFailureWithoutSleeping
                  ELSE SleepsThenAttemptsAgain(
                           now, Min(NominalDelay(attempts), MAX_DURATION - now))]_vars

\* The transfer gave up after a last sleep that was cut to the remaining
\* budget, shorter than the delay its attempt number calls for.
GaveUpAfterClampedSleep ==
    /\ transfer_returned = Some(FALSE)
    /\ IsSome(last_sleep)
    /\ attempts >= 3
    /\ Unwrap(last_sleep) < NominalDelay(attempts - 1)

(***************************************************************************)
(* Executor::execute_all: the pipeline of execute_group once per analysis, *)
(* and the ExecutionReport (src/models/execution.rs).                      *)
(***************************************************************************)
MaxGroups == 2

MaxGroupLosers == 1

\* The i-th analysis handed to execute_all: n losers, each in album 1.
AnalysisOf(i, n) ==
    [duplicate_id |-> <<"group", i>>, winner_id |-> WinnerId, losers |-> LoserIds(n),
     albums_of |-> [l \in 1..n |-> {1}]]

\* execute_all is entered with up to max_groups analyses of up to max_losers
\* losers; execute_group has not run yet.
EnterExecuteAll(max_groups, max_losers) ==
    /\ NoScore
    /\ preserve_albums \in BOOLEAN
    /\ force_delete = FALSE
    /\ \E g \in 0..max_groups : \E n \in [1..g -> 0..max_losers] :
          analyses = [i \in 1..g |-> AnalysisOf(i, n[i])]
    /\ backup_dir = "unknown"
    /\ all_pc = "Start"
    /\ group_index = 0
    /\ report = ExecutionReport_new
    /\ duplicate_id = <<"group", 0>>
    /\ winner_id = WinnerId
    /\ losers = <<>>
    /\ albums_of = <<>>
    /\ pc = "Done"
    /\ idx = 1
    /\ consolidation_result = None
    /\ albums_to_transfer = {}
    /\ pending_albums = {}
    /\ had_failures = FALSE
    /\ error_messages = <<>>
    /\ transferred_albums = <<>>
    /\ album_transfer_result = None
    /\ download_results = <<>>
    /\ delete_result = None
    /\ group_result = None
    /\ download_calls = <<>>
    /\ delete_calls = <<>>
    /\ remote_calls = <<>>

InitAll ==
    /\ NoDetail
    /\ EnterExecuteAll(MaxGroups, MaxGroupLosers)

\* The number of results of the given status.
RECURSIVE count_status(_, _)
count_status(results, status) ==
    IF results = <<>> THEN 0
    ELSE (IF results[1].status = status THEN 1 ELSE 0)
         + count_status(Tail(results), status)

\* The group's result is counted but not pushed to report.results.
add_group_result_dropping(r, result) ==
    [r EXCEPT !.total_groups = @ + 1]

\* Every successful delete call counts as one deleted asset.
add_group_result_counting_delete_calls(r, result) ==
    LET downloads == result.download_results
        delete == result.delete_result
        delete_is(status) == IsSome(delete) /\ Unwrap(delete).status = status
    IN  [r EXCEPT !.total_groups = @ + 1,
                  !.downloaded = @ + count_status(downloads, "Success"),
                  !.deleted = @ + (IF delete_is("Success") THEN 1 ELSE 0),
                  !.failed = @ + count_status(downloads, "Failed")
                               + (IF delete_is("Failed") THEN 1 ELSE 0),
                  !.skipped = @ + count_status(downloads, "Skipped")
                                + (IF delete_is("Skipped") THEN 1 ELSE 0),
                  !.results = Append(@, result)]

\* ExecutionReport::add_group_result
add_group_result(r, result) ==
    LET downloads == result.download_results
        delete == result.delete_result
        delete_is(status) == IsSome(delete) /\ Unwrap(delete).status = status
        transfer == result.album_transfer_result
    IN  [total_groups |-> r.total_groups + 1,
         downloaded |-> r.downloaded + count_status(downloads, "Success"),
         deleted |-> r.deleted + (IF delete_is("Success")
                                  THEN count_status(downloads, "Success") ELSE 0),
         failed |-> r.failed + count_status(downloads, "Failed")
                       + (IF delete_is("Failed") THEN 1 ELSE 0),
         skipped |-> r.skipped + count_status(downloads, "Skipped")
                       + (IF delete_is("Skipped") THEN 1 ELSE 0),
         albums_transferred |->
             r.albums_transferred
                 + (IF IsSome(transfer) THEN Unwrap(transfer).albums_transferred ELSE 0),
         album_transfer_failures |->
             r.album_transfer_failures
                 + (IF IsSome(transfer) /\ Unwrap(transfer).had_failures THEN 1 ELSE 0),
         results |-> Append(r.results, result)]

\* A failure to create the backup directory is ignored.
CreateBackupDirIgnoringError ==
    /\ all_pc = "Start"
    /\ report' = ExecutionReport_new
    /\ IF analyses = <<>>
       THEN /\ all_pc' = "Returned"
            /\ UNCHANGED <<backup_dir, group_index>>
       ELSE /\ \E ok \in BOOLEAN : backup_dir' = IF ok THEN "created" ELSE "failed"
            /\ all_pc' = "Looping"
            /\ group_index' = 1
    /\ UNCHANGED <<analyses, configVars, detailVars, inputVars, albumVars, resultVars,
                   callVars, pc, idx, functionVars>>

\* execute_all up to its loop: an empty report, the early return for no
\* groups, and create_dir_all on the backup directory.
CreateBackupDir ==
    /\ all_pc = "Start"
    /\ report' = ExecutionReport_new
    /\ IF analyses = <<>>
       THEN /\ all_pc' = "Returned"
            /\ UNCHANGED <<backup_dir, group_index>>
       ELSE \E ok \in BOOLEAN :
               IF ok
               THEN /\ backup_dir' = "created"
                    /\ all_pc' = "Looping"
                    /\ group_index' = 1
               ELSE /\ backup_dir' = "failed"
                    /\ all_pc' = "Returned"
                    /\ UNCHANGED group_index
    /\ UNCHANGED <<analyses, configVars, detailVars, inputVars, albumVars, resultVars,
                   callVars, pc, idx, functionVars>>

\* The loop takes the analyses from last to first.
AnalysisAtReversed(i) == analyses[Len(analyses) + 1 - i]

\* The analysis the for loop hands to execute_group in its i-th iteration.
AnalysisAt(i) == analyses[i]

\* The loop calls execute_group for the next analysis; download_calls and
\* delete_calls hold the calls of the group in hand.
ExecuteGroupBegin ==
    /\ all_pc = "Looping"
    /\ group_index <= Len(analyses)
    /\ LET a == AnalysisAt(group_index)
       IN  /\ duplicate_id' = a.duplicate_id
           /\ winner_id' = a.winner_id
           /\ losers' = a.losers
           /\ albums_of' = a.albums_of
    /\ all_pc' = "InGroup"
    /\ pc' = "Consolidating"
    /\ idx' = 1
    /\ consolidation_result' = None
    /\ albums_to_transfer' = {}
    /\ pending_albums' = {}
    /\ had_failures' = FALSE
    /\ error_messages' = <<>>
    /\ transferred_albums' = <<>>
    /\ album_transfer_result' = None
    /\ download_results' = <<>>
    /\ delete_result' = None
    /\ group_result' = None
    /\ download_calls' = <<>>
    /\ delete_calls' = <<>>
    /\ UNCHANGED <<analyses, backup_dir, group_index, report, remote_calls, configVars,
                   detailVars, functionVars>>

\* execute_group has returned: its result is added to the report and the loop
\* moves on.
AddGroupResult ==
    /\ all_pc = "InGroup"
    /\ pc = "Done"
    /\ report' = add_group_result(report, Unwrap(group_result))
    /\ group_index' = group_index + 1
    /\ all_pc' = "Looping"
    /\ UNCHANGED <<analyses, backup_dir, configVars, detailVars, inputVars, albumVars,
                   resultVars, callVars, pc, idx, functionVars>>

\* After the loop execute_all returns the report.
ReturnReport ==
    /\ all_pc = "Looping"
    /\ group_index > Len(analyses)
    /\ all_pc' = "Returned"
    /\ UNCHANGED <<analyses, backup_dir, group_index, report, configVars, detailVars,
                   inputVars, albumVars, resultVars, callVars, pc, idx, functionVars>>

NextAll ==
    \/ CreateBackupDir
    \/ ExecuteGroupBegin
    \/ ConsolidateMetadata
    \/ GetAlbumsForAsset
    \/ AlbumsCollected
    \/ TransferAlbum
    \/ AlbumsTransferred
    \/ Decide
    \/ DownloadLoser
    \/ DeleteAssets
    \/ AddGroupResult
    \/ ReturnReport

SpecAll == InitAll /\ [][NextAll]_vars

(***************************************************************************)
(* Properties of execute_all.                                              *)
(***************************************************************************)
\* Position in the input of the group a remote call was made for.
GroupOfCall(k) == remote_calls[k].group[2]

LastCall(calls) == calls[Len(calls)]

\* C23: execute_all processes the analyses strictly in input order, one after
\* the other: the i-th GroupResult in report.results belongs to the i-th input
\* analysis, and no remote call for a later group is made before the earlier
\* group's result has been added to the report.
GroupsInInputOrder ==
    /\ [](/\ Len(report.results) <= Len(analyses)
          /\ \A i \in 1..Len(report.results) :
                report.results[i].duplicate_id = analyses[i].duplicate_id
          /\ \A k \in 1..Len(remote_calls) :
                /\ GroupOfCall(k) <= Len(report.results) + 1
                /\ \A l \in k..Len(remote_calls) : GroupOfCall(k) <= GroupOfCall(l))
    /\ [][remote_calls' # remote_calls =>
             /\ Len(report.results) < Len(analyses)
             /\ LastCall(remote_calls').group
                    = analyses[Len(report.results) + 1].duplicate_id
             /\ report' = report]_vars

\* Two groups were processed, with remote calls for both, and reported.
TwoGroupsReported ==
    /\ all_pc = "Returned"
    /\ Len(report.results) = 2
    /\ \A g \in 1..2 : \E k \in 1..Len(remote_calls) : GroupOfCall(k) = g
    /\ report.results[2].download_results # <<>>

\* C24: if creating the backup directory fails, execute_all stops before
\* processing any group: it makes no remote call, and nothing is consolidated,
\* transferred, downloaded or deleted.
BackupDirFailureStopsTheRun ==
    backup_dir = "failed" =>
        /\ all_pc = "Returned"
        /\ remote_calls = <<>>
        /\ download_calls = <<>>
        /\ delete_calls = <<>>
        /\ consolidation_result = None
        /\ album_transfer_result = None
        /\ transferred_albums = <<>>
        /\ group_result = None
        /\ report = ExecutionReport_new

\* execute_all has returned for two groups after create_dir_all failed.
ReturnedAfterBackupDirFailure ==
    /\ backup_dir = "failed"
    /\ all_pc = "Returned"
    /\ Len(analyses) = 2
    /\ \E i \in 1..2 : analyses[i].losers # <<>>

\* execute_all is never stuck before it returns.
GoesOnUntilReturned == all_pc # "Returned" => ENABLED NextAll

\* C25, as claimed: execute_all always returns a report in which the outcome
\* of every input group is represented: whatever failed during the run,
\* report.total_groups and the number of entries of report.results equal the
\* number of input analyses.
EveryGroupInReport ==
    /\ GoesOnUntilReturned
    /\ all_pc = "Returned" =>
          /\ report.total_groups = Len(analyses)
          /\ Len(report.results) = Len(analyses)

\* C25, amended: that holds unless creating the backup directory failed, when
\* the report returned is the empty one.
EveryGroupInReportUnlessNoBackupDir ==
    /\ GoesOnUntilReturned
    /\ all_pc = "Returned" =>
          IF backup_dir = "failed"
          THEN report = ExecutionReport_new
          ELSE /\ report.total_groups = Len(analyses)
               /\ Len(report.results) = Len(analyses)

\* Two groups are reported, one whose album transfer had failures and one with
\* a failed download or delete.
ReportedDespiteFailures ==
    /\ all_pc = "Returned"
    /\ backup_dir = "created"
    /\ Len(report.results) = 2
    /\ report.album_transfer_failures > 0
    /\ report.failed > 0

(***************************************************************************)
(* Properties of the download and delete steps and of the stage order.     *)
(***************************************************************************)
Prefix(s, n) == SubSeq(s, 1, n)

\* execute_group returned early at the decision step.
GroupShortCircuited ==
    /\ pc = "Done"
    /\ Unwrap(group_result).delete_result
           = Some(Skipped(GroupId, ReasonAlbumTransferFailed))

\* C26: when a group is not short-circuited, execute_group attempts exactly one
\* download per loser, in losers order, and records one OperationResult per
\* loser; a failed download neither stops nor alters the downloads of the
\* remaining losers.
OneDownloadPerLoser ==
    /\ Len(download_calls) <= Len(losers)
    /\ download_calls = Prefix(losers, Len(download_calls))
    /\ Len(download_results) = Len(download_calls)
    /\ \A j \in 1..Len(download_results) :
          download_results[j] \in {Success(losers[j]), Failed(losers[j])}
    /\ (pc = "Done" /\ ~GroupShortCircuited) =>
          /\ download_calls = losers
          /\ Unwrap(group_result).download_results = download_results

\* The first download failed, the second one was made and succeeded.
DownloadedAfterFailedDownload ==
    /\ pc = "Done"
    /\ Len(losers) >= 2
    /\ download_results[1].status = "Failed"
    /\ download_results[2].status = "Success"
    /\ download_calls = losers

SuccessfullyDownloaded ==
    {l \in SeqToSet(losers) :
        \E j \in 1..Len(download_results) : download_results[j] = Success(l)}

\* C27: when at least one download of a group succeeded, execute_group issues
\* exactly one delete call for the group, whose id list is exactly the set of
\* successfully downloaded loser ids and whose force flag equals
\* config.force_delete, and records its outcome as a single OperationResult
\* (Success or Failed) for the whole batch.
OneBatchDelete ==
    /\ Len(delete_calls) <= 1
    /\ (pc = "Done" /\ SuccessfullyDownloaded # {}) =>
          /\ Len(delete_calls) = 1
          /\ SeqToSet(delete_calls[1].ids) = SuccessfullyDownloaded
          /\ Len(delete_calls[1].ids) = Cardinality(SuccessfullyDownloaded)
          /\ delete_calls[1].force = force_delete
          /\ delete_result \in {Some(Success(GroupId)), Some(Failed(GroupId))}
          /\ Unwrap(group_result).delete_result = delete_result

\* A batch delete of two downloaded losers, not forced, failed; a third
\* outcome of the same group is a failed download.
BatchDeleteRecordedOnce ==
    /\ pc = "Done"
    /\ ~force_delete
    /\ Len(delete_calls) = 1
    /\ delete_calls[1].ids = losers
    /\ Len(losers) = 2
    /\ delete_result = Some(Failed(GroupId))

StageRank(stage) ==
    CASE stage = "consolidation" -> 1
      [] stage = "albums" -> 2
      [] stage = "download" -> 3
      [] stage = "delete" -> 4

MaxDimAssets == 2

\* EXIF blocks that differ in pixel dimensions, in score (0 or 30) and in file
\* size.
DimExifOptions ==
    {Some([fields EXCEPT !.exif_image_width = dims[1], !.exif_image_height = dims[2],
                         !.file_size_in_byte = size]) :
        fields \in {NoFields,
                    [NoFields EXCEPT !.latitude = Some(0), !.longitude = Some(0)]},
        dims \in {<<None, None>>, <<Some(10), Some(10)>>, <<Some(20), Some(15)>>},
        size \in {Some(0), Some(5)}}

InitDims ==
    /\ NoExec
    /\ NoLetterbox
    /\ NoPaths
    /\ analysis = None
    /\ \E n \in 1..MaxDimAssets : group \in Groups(n, DimExifOptions)

SpecDims == InitDims /\ [][NextAnalyze]_vars

\* Width times height of the k-th asset of the group, 0 when unknown.
Pixels(k) ==
    LET e == Unwrap(group[k].exif_info)
    IN  unwrap_or(e.exif_image_width, 0) * unwrap_or(e.exif_image_height, 0)

DifferInDimensions == \E k \in Indices : \E l \in Indices : Pixels(k) # Pixels(l)

WithoutDimensions ==
    [k \in 1..Len(group) |->
        AssetResponse(group[k].id,
                      Some([Unwrap(group[k].exif_info)
                                EXCEPT !.exif_image_width = None,
                                       !.exif_image_height = None]))]

Ids(scored) == [k \in 1..Len(scored) |-> scored[k].asset_id]

MaxUnitCalls == 4

TransferUnit == 1

\* What the add call can return when the remote call failed: an error that
\* try_transfer_album returns, or one it tolerates.
AddErrors == {HttpError, ApiError(400, Already)}

InitUnit ==
    /\ NoConsol
    /\ NoRun
    /\ NoScore
    /\ \E permits \in 1..2 :
          NewExecutor(DefaultRequestsPerSec, permits, 1, MaxUnitCalls)
    /\ preserve_albums = TRUE
    /\ force_delete = FALSE
    /\ duplicate_id = "group"
    /\ winner_id = WinnerId
    /\ losers = LoserIds(1)
    /\ albums_of = <<>>
    /\ pc = "TransferAlbums"
    /\ idx = 1
    /\ consolidation_result = None
    /\ albums_to_transfer = {}
    /\ pending_albums = {}
    /\ had_failures = FALSE
    /\ error_messages = <<>>
    /\ transferred_albums = <<>>
    /\ album_transfer_result = None
    /\ download_results = <<>>
    /\ delete_result = None
    /\ group_result = None
    /\ download_calls = <<>>
    /\ delete_calls = <<>>
    /\ remote_calls = <<>>
    /\ transfer_pc = "Add"
    /\ current_album = Some(1)
    /\ elapsed = 0
    /\ delay = INITIAL_DELAY
    /\ attempts = 1
    /\ add_result = None
    /\ remove_result = None
    /\ attempt_result = None
    /\ attempt_calls = <<>>
    /\ last_sleep = None
    /\ transfer_returned = None

\* The unit calls rate_limited with a client call of the given kind.
BeginCall(kind) ==
    /\ callers[TransferUnit].pc = "idle"
    /\ issued < budget
    /\ callers' = [callers EXCEPT ![TransferUnit] =
                      [pc |-> "until_ready", kind |-> Some(kind),
                       result |-> None, log |-> <<>>]]
    /\ issued' = issued + 1
    /\ UNCHANGED <<requests_per_sec, max_concurrent, rate_limiter, concurrency,
                   clock, budget, completed>>

\* rate_limited has returned to the unit.
CallReturned ==
    /\ callers[TransferUnit].pc = "idle"
    /\ IsSome(callers[TransferUnit].result)

\* The unit goes on as soon as the remote call has ended, inside rate_limited.
CallReturnedInsideGate ==
    /\ callers[TransferUnit].pc = "in_flight"
    /\ IsSome(callers[TransferUnit].kind)

\* try_transfer_album: the rate-limited add call is made.
CallAddWinner ==
    /\ transfer_pc = "Add"
    /\ BeginCall("add_assets_to_album")
    /\ transfer_pc' = "Adding"
    /\ attempt_calls' =
          Append(attempt_calls, [op |-> "add_assets_to_album",
                                 album |-> Unwrap(current_album),
                                 ids |-> <<winner_id>>])
    /\ UNCHANGED <<configVars, runVars, consolVars, inputVars, albumVars, resultVars,
                   callVars, pc, idx, functionVars, current_album, elapsed, delay,
                   attempts, add_result, remove_result, attempt_result, last_sleep,
                   transfer_returned>>

\* try_transfer_album: the add call has returned.
AddWinnerReturned ==
    /\ transfer_pc = "Adding"
    /\ CallReturned
    /\ \E d \in CallDurations : elapsed' = elapsed + d
    /\ \E r \in AddErrors \cup {OkResponse} :
          /\ r.type = "Ok" <=> Unwrap(callers[TransferUnit].result)
          /\ add_result' = Some(r)
          /\ IF r.type # "Ok" /\ add_error_propagates(r)
             THEN /\ attempt_result' = Some(FALSE)
                  /\ transfer_pc' = "AttemptFailed"
             ELSE /\ transfer_pc' = "Remove"
                  /\ UNCHANGED attempt_result
    /\ UNCHANGED <<configVars, runVars, gateVars, consolVars, inputVars, albumVars,
                   resultVars, callVars, pc, idx, functionVars, current_album, delay,
                   attempts, remove_result, attempt_calls, last_sleep,
                   transfer_returned>>

\* try_transfer_album: the rate-limited remove call is made.
CallRemoveLosers ==
    /\ transfer_pc = "Remove"
    /\ BeginCall("remove_assets_from_album")
    /\ transfer_pc' = "Removing"
    /\ attempt_calls' =
          Append(attempt_calls, [op |-> "remove_assets_from_album",
                                 album |-> Unwrap(current_album),
                                 ids |-> losers])
    /\ UNCHANGED <<configVars, runVars, consolVars, inputVars, albumVars, resultVars,
                   callVars, pc, idx, functionVars, current_album, elapsed, delay,
                   attempts, add_result, remove_result, attempt_result, last_sleep,
                   transfer_returned>>

\* The error of the remove call reaches transfer_single_album while the call
\* is still inside rate_limited.
RemoveLosersReturnedInsideGate ==
    /\ transfer_pc = "Removing"
    /\ CallReturnedInsideGate
    /\ \E d \in CallDurations : elapsed' = elapsed + d
    /\ remove_result' = Some(FALSE)
    /\ attempt_result' = Some(FALSE)
    /\ transfer_pc' = "AttemptFailed"
    /\ UNCHANGED <<configVars, runVars, gateVars, consolVars, inputVars, albumVars,
                   resultVars, callVars, pc, idx, functionVars, current_album, delay,
                   attempts, add_result, attempt_calls, last_sleep, transfer_returned>>

\* try_transfer_album: the remove call has returned; on Ok
\* transfer_single_album returns true.
RemoveLosersReturned ==
    /\ transfer_pc = "Removing"
    /\ CallReturned
    /\ \E d \in CallDurations : elapsed' = elapsed + d
    /\ LET ok == Unwrap(callers[TransferUnit].result)
       IN  /\ remove_result' = Some(ok)
           /\ attempt_result' = Some(ok)
           /\ IF ok
              THEN /\ transfer_pc' = "Returned"
                   /\ transfer_returned' = Some(TRUE)
              ELSE /\ transfer_pc' = "AttemptFailed"
                   /\ UNCHANGED transfer_returned
    /\ UNCHANGED <<configVars, runVars, gateVars, consolVars, inputVars, albumVars,
                   resultVars, callVars, pc, idx, functionVars, current_album, delay,
                   attempts, add_result, attempt_calls, last_sleep>>

\* A step of rate_limited or of the limiter's clock.
GateStep ==
    /\ \/ ClockTick
       \/ UntilReady(TransferUnit)
       \/ AcquirePermit(TransferUnit)
       \/ StartCall(TransferUnit)
       \/ RateLimitedReturn(TransferUnit)
    /\ UNCHANGED <<configVars, runVars, consolVars, transferVars, inputVars, albumVars,
                   resultVars, callVars, pc, idx, functionVars>>

NextUnit ==
    \/ CallAddWinner
    \/ AddWinnerReturned
    \/ CallRemoveLosers
    \/ RemoveLosersReturned
    \/ Backoff
    \/ GateStep

SpecUnit == InitUnit /\ [][NextUnit]_vars

\* C30: while an album-transfer unit sleeps in its backoff between two
\* attempts, it holds no concurrency permit: every permit taken for the failed
\* attempt's calls has been returned before the sleep starts.
NoPermitWhileSleeping ==
    /\ [](transfer_pc = "AttemptFailed" =>
             /\ callers[TransferUnit].pc = "idle"
             /\ ~HoldsPermit(TransferUnit)
             /\ concurrency = max_concurrent)
    /\ [][attempts' = attempts + 1 =>
             /\ IsSome(last_sleep')
             /\ concurrency = max_concurrent
             /\ concurrency' = max_concurrent
             /\ callers' = callers]_vars

\* The unit slept after an attempt whose add and remove calls both held a
\* permit, and has all permits free at the start of its second attempt.
SleptAfterTwoPermits ==
    /\ attempts = 2
    /\ transfer_pc = "Add"
    /\ last_sleep = Some(INITIAL_DELAY)
    /\ completed = 2
    /\ callers[TransferUnit].log = GateOrder
    /\ concurrency = max_concurrent

(***************************************************************************)
(* The split of a group into winner and losers.                            *)
(***************************************************************************)
\* The scored assets the analysis holds: the winner, then the losers.
WinnerAndLosers == <<Analysed.winner>> \o Analysed.losers

\* How often the asset with this id appears among winner and losers.
Occurrences(id) ==
    Cardinality({k \in 1..Len(WinnerAndLosers) : WinnerAndLosers[k].asset_id = id})

\* C31: for every non-empty group, winner and losers of from_group together
\* are exactly the group's assets, each asset once (as the scored form of that
\* asset): losers has one entry fewer than the group, never contains the
\* winner, and is empty for a single-asset group.
WinnerAndLosersPartitionGroup ==
    (IsSome(analysis) /\ group # <<>>) =>
        /\ \A k \in Indices :
              /\ Occurrences(group[k].id) = 1
              /\ \E j \in 1..Len(WinnerAndLosers) :
                    WinnerAndLosers[j] = ScoredAsset(group[k])
        /\ Len(WinnerAndLosers) = Len(group)
        /\ Len(Analysed.losers) = Len(group) - 1
        /\ \A j \in 1..Len(Analysed.losers) :
              Analysed.losers[j].asset_id # Analysed.winner.asset_id
        /\ (Len(group) = 1 => Analysed.losers = <<>>)

\* A group of three in which the last asset won and the losers were reordered.
LastAssetWonOfThree ==
    /\ IsSome(analysis)
    /\ Len(group) = 3
    /\ Analysed.winner.asset_id = group[3].id
    /\ Len(Analysed.losers) = 2
    /\ Analysed.losers[1].asset_id = group[2].id
    /\ Analysed.losers[2].asset_id = group[1].id

(***************************************************************************)
(* letterbox::find_letterbox_pairs.  Widths and heights are pixel counts;  *)
(* the f64 comparisons of detect_aspect_ratio are done on the exact        *)
(* fractions.  Timestamps, makes and models are strings.                   *)
(***************************************************************************)
MaxLetterboxAssets == 3

FourThree == "FourThree"

SixteenNine == "SixteenNine"

\* |max/min - 4/3| < 0.01 and |max/min - 16/9| < 0.01, multiplied out.
detect_aspect_ratio(width, height) ==
    IF width = 0 \/ height = 0 THEN None
    ELSE LET max_dim == IF width > height THEN width ELSE height
             min_dim == IF width < height THEN width ELSE height
         IN  IF 100 * Abs(3 * max_dim - 4 * min_dim) < 3 * min_dim
             THEN Some(FourThree)
             ELSE IF 100 * Abs(9 * max_dim - 16 * min_dim) < 9 * min_dim
                  THEN Some(SixteenNine)
                  ELSE None

get_asset_aspect_ratio(asset) ==
    IF asset.exif_info = None THEN None
    ELSE LET exif == Unwrap(asset.exif_info)
         IN  IF exif.exif_image_width = None \/ exif.exif_image_height = None
             THEN None
             ELSE detect_aspect_ratio(Unwrap(exif.exif_image_width),
                                      Unwrap(exif.exif_image_height))

is_iphone_asset(asset) ==
    /\ asset.exif_info # None
    /\ LET exif == Unwrap(asset.exif_info)
       IN  /\ IsSome(exif.make)
           /\ str_contains(to_lowercase(Unwrap(exif.make)), <<"a", "p", "p", "l", "e">>)
           /\ IsSome(exif.model)
           /\ str_contains(to_lowercase(Unwrap(exif.model)),
                           <<"i", "p", "h", "o", "n", "e">>)

\* str::find for one character: the offset of its first occurrence.
find_char(s, c) ==
    IF \E k \in 1..Len(s) : s[k] = c
    THEN Some((CHOOSE k \in 1..Len(s) : s[k] = c /\ \A j \in 1..(k - 1) : s[j] # c) - 1)
    ELSE None

timestamp_second_of(timestamp) ==
    IF IsSome(find_char(timestamp, "."))
    THEN SubSeq(timestamp, 1, Unwrap(find_char(timestamp, ".")))
    ELSE IF IsSome(find_char(timestamp, "Z"))
         THEN SubSeq(timestamp, 1, Unwrap(find_char(timestamp, "Z")))
         ELSE timestamp

\* format!("{:.4}") of a coordinate given in units of 0.00001 degree: the
\* sign and the digits after rounding to 0.0001 (no input is a tie).
format_4(x) == [negative |-> x < 0, digits |-> (Abs(x) + 5) \div 10]

\* PairingKey::from_asset
PairingKey_from_asset(asset) ==
    IF asset.exif_info = None THEN None
    ELSE LET exif == Unwrap(asset.exif_info)
         IN  IF exif.date_time_original = None \/ exif.make = None \/ exif.model = None
             THEN None
             ELSE Some([timestamp_second |->
                            timestamp_second_of(Unwrap(exif.date_time_original)),
                        make |-> Unwrap(exif.make),
                        model |-> Unwrap(exif.model),
                        gps_key |->
                            IF IsSome(exif.latitude) /\ IsSome(exif.longitude)
                            THEN Some(<<format_4(Unwrap(exif.latitude)),
                                        format_4(Unwrap(exif.longitude))>>)
                            ELSE None])

LetterboxPair(keeper, delete, key) ==
    [keeper |-> keeper, delete |-> delete, timestamp |-> key.timestamp_second,
     camera |-> key.make \o <<" ">> \o key.model]

\* The first loop: which assets are put into a group.
is_grouped(asset) ==
    /\ is_iphone_asset(asset)
    /\ ~asset.is_trashed
    /\ IsSome(get_asset_aspect_ratio(asset))
    /\ IsSome(PairingKey_from_asset(asset))

\* The keys of the HashMap, and the Vec stored under a key, in input order.
group_keys(assets) ==
    {Unwrap(PairingKey_from_asset(assets[k])) :
        k \in {j \in 1..Len(assets) : is_grouped(assets[j])}}

RECURSIVE group_assets_of(_, _)
group_assets_of(assets, key) ==
    IF assets = <<>> THEN <<>>
    ELSE (IF is_grouped(Head(assets)) /\ PairingKey_from_asset(Head(assets)) = Some(key)
          THEN <<Head(assets)>> ELSE <<>>) \o group_assets_of(Tail(assets), key)

RECURSIVE of_ratio(_, _)
of_ratio(group_assets, ratio) ==
    IF group_assets = <<>> THEN <<>>
    ELSE (IF get_asset_aspect_ratio(Head(group_assets)) = Some(ratio)
          THEN <<Head(group_assets)>> ELSE <<>>) \o of_ratio(Tail(group_assets), ratio)

\* A pair is made of the first asset of each ratio, however many there are.
pair_of_group_first_of_each(key, group_assets) ==
    LET four_three == of_ratio(group_assets, FourThree)
        sixteen_nine == of_ratio(group_assets, SixteenNine)
    IN  IF Len(four_three) >= 1 /\ Len(sixteen_nine) >= 1
        THEN Some(LetterboxPair(four_three[1], sixteen_nine[1], key))
        ELSE None

\* The body of the second loop: the pair of one group, if it has one.
pair_of_group(key, group_assets) ==
    LET four_three == of_ratio(group_assets, FourThree)
        sixteen_nine == of_ratio(group_assets, SixteenNine)
    IN  IF Len(four_three) = 1 /\ Len(sixteen_nine) = 1
        THEN Some(LetterboxPair(four_three[1], sixteen_nine[1], key))
        ELSE None

\* The orders in which a HashMap may hand out its keys.
IterationOrders(keys) ==
    {order \in [1..Cardinality(keys) -> keys] :
        \A i, j \in 1..Cardinality(keys) : order[i] = order[j] => i = j}

find_letterbox_pairs(assets, order) ==
    Flatten([k \in 1..Len(order) |->
                pair_of_group(order[k], group_assets_of(assets, order[k]))])

Apple == <<"A", "p", "p", "l", "e">>

IPhone == <<"i", "P", "h", "o", "n", "e">>

LetterboxExif(make, model, timestamp, width, height, lat, lon) ==
    Some([NoFields EXCEPT !.make = Some(make), !.model = Some(model),
                          !.date_time_original = Some(timestamp),
                          !.exif_image_width = width, !.exif_image_height = height,
                          !.latitude = lat, !.longitude = lon])

\* The assets of the library: EXIF block and trash flag.  Two seconds of
\* capture, written with and without fraction and zone; both ratios in both
\* orientations and within the tolerance; another camera; coordinates that
\* round to the same and to different keys.
LetterboxOptions ==
    {[exif_info |-> LetterboxExif(Apple, IPhone, <<"1", "Z">>, Some(16), Some(9), None, None),
      is_trashed |-> t] : t \in BOOLEAN} \cup
    {[exif_info |-> e, is_trashed |-> FALSE] : e \in
        {LetterboxExif(Apple, IPhone, <<"1", "Z">>, Some(4), Some(3), None, None),
         LetterboxExif(Apple, IPhone, <<"1", ".", "5", "Z">>, Some(299), Some(400), None, None),
         LetterboxExif(Apple, IPhone, <<"1", ".", "5", "Z">>, Some(9), Some(16), None, None),
         LetterboxExif(Apple, IPhone, <<"2">>, Some(16), Some(9), None, None),
         LetterboxExif(Apple, IPhone, <<"1", "Z">>, Some(1), Some(1), None, None),
         LetterboxExif(<<"G">>, <<"P">>, <<"1", "Z">>, Some(16), Some(9), None, None),
         LetterboxExif(to_lowercase(Apple), IPhone, <<"1", "Z">>, Some(16), Some(9), None, None),
         LetterboxExif(Apple, IPhone, <<"1", "Z">>, Some(4), Some(3), Some(4), Some(0)),
         LetterboxExif(Apple, IPhone, <<"1", "Z">>, Some(16), Some(9), Some(0), Some(0)),
         LetterboxExif(Apple, IPhone, <<"1", "Z">>, Some(16), Some(9), Some(6), Some(0))}}

LetterboxAsset(asset_id, option) ==
    [id |-> asset_id, exif_info |-> option.exif_info, is_trashed |-> option.is_trashed]

InitLetterbox ==
    /\ NoExec
    /\ NoPaths
    /\ group = <<>>
    /\ analysis = None
    /\ letterbox_pairs = None
    /\ \E n \in 1..MaxLetterboxAssets :
          letterbox_assets \in
              {[k \in 1..n |-> LetterboxAsset(k, f[k])] : f \in [1..n -> LetterboxOptions]}

\* The call of find_letterbox_pairs on the assets.
FindLetterboxPairs ==
    /\ letterbox_pairs = None
    /\ letterbox_assets # <<>>
    /\ \E order \in IterationOrders(group_keys(letterbox_assets)) :
          letterbox_pairs' = Some(find_letterbox_pairs(letterbox_assets, order))
    /\ UNCHANGED <<execVars, scoreVars, pathVars, letterbox_assets>>

NextLetterbox == FindLetterboxPairs

SpecLetterbox == InitLetterbox /\ [][NextLetterbox]_vars

Pairs == Unwrap(letterbox_pairs)

\* The keys any asset of the input has.
InputKeys ==
    {Unwrap(PairingKey_from_asset(letterbox_assets[k])) :
        k \in {j \in 1..Len(letterbox_assets) :
                  IsSome(PairingKey_from_asset(letterbox_assets[j]))}}

\* The non-trashed iPhone assets sharing the key that have the ratio.
Candidates(key, ratio) ==
    {k \in 1..Len(letterbox_assets) :
        /\ PairingKey_from_asset(letterbox_assets[k]) = Some(key)
        /\ is_iphone_asset(letterbox_assets[k])
        /\ ~letterbox_assets[k].is_trashed
        /\ get_asset_aspect_ratio(letterbox_assets[k]) = Some(ratio)}

PairsOfKey(key) ==
    {p \in 1..Len(Pairs) : PairingKey_from_asset(Pairs[p].keeper) = Some(key)}

\* C32: find_letterbox_pairs emits a pair for a pairing key (capture second,
\* make, model, GPS key) exactly when the non-trashed iPhone assets sharing
\* that key contain exactly one 4:3 asset and exactly one 16:9 asset; the 4:3
\* asset is then the keeper and the 16:9 asset the one to delete, and a key
\* with two or more assets of the same ratio yields no pair.
OnePairPerUnambiguousKey ==
    IsSome(letterbox_pairs) =>
        /\ \A key \in InputKeys :
              IF Cardinality(Candidates(key, FourThree)) = 1
                 /\ Cardinality(Candidates(key, SixteenNine)) = 1
              THEN \E p \in 1..Len(Pairs) :
                      /\ PairsOfKey(key) = {p}
                      /\ \A k \in Candidates(key, FourThree) :
                            Pairs[p].keeper = letterbox_assets[k]
                      /\ \A k \in Candidates(key, SixteenNine) :
                            Pairs[p].delete = letterbox_assets[k]
                      /\ Pairs[p].timestamp = key.timestamp_second
              ELSE PairsOfKey(key) = {}
        /\ \A p \in 1..Len(Pairs) :
              PairingKey_from_asset(Pairs[p].keeper) \in {Some(key) : key \in InputKeys}

\* One pair was returned although a trashed asset shares its key, and its
\* keeper is a portrait image whose timestamp has a fraction of a second.
PairFoundBesideTrashedAsset ==
    /\ IsSome(letterbox_pairs)
    /\ Len(Pairs) = 1
    /\ Unwrap(Pairs[1].keeper.exif_info).date_time_original #
           Unwrap(Pairs[1].delete.exif_info).date_time_original
    /\ \E k \in 1..Len(letterbox_assets) :
          /\ letterbox_assets[k].is_trashed
          /\ PairingKey_from_asset(letterbox_assets[k]) =
                 PairingKey_from_asset(Pairs[1].keeper)

(***************************************************************************)
(* Order of the two calls of try_transfer_album.                           *)
(***************************************************************************)
\* The answer to the add call lets the attempt go on: Ok, or a 400 that says
\* the winner is in the album already.
AddAccepted(r) ==
    \/ r.type = "Ok"
    \/ /\ r.type = "Api"
       /\ r.status = 400
       /\ \/ str_contains(to_lowercase(r.message), Duplicate)
          \/ str_contains(to_lowercase(r.message), Already)

\* C33: in every album-transfer attempt the add-winner call is made before the
\* remove-losers call, and the remove-losers call is made only if the add
\* succeeded or was tolerated as already present: the losers are never
\* removed in an attempt in which adding the winner failed.
AddWinnerBeforeRemoveLosers ==
    /\ Len(attempt_calls) <= 2
    /\ \A k \in 1..Len(attempt_calls) :
          /\ attempt_calls[k].op = "add_assets_to_album" => k = 1
          /\ attempt_calls[k].op = "remove_assets_from_album" =>
                /\ k = 2
                /\ attempt_calls[1] = [op |-> "add_assets_to_album",
                                       album |-> attempt_calls[k].album,
                                       ids |-> <<winner_id>>]
                /\ IsSome(add_result)
                /\ AddAccepted(Unwrap(add_result))
    /\ (IsSome(add_result) /\ ~AddAccepted(Unwrap(add_result))) =>
          /\ ~RemoveCalled
          /\ attempt_result = Some(FALSE)

\* In a later attempt the losers were removed after the add was answered 400
\* "duplicate", the winner having been added by an earlier attempt.
RemovedAfterToleratedAddOnRetry ==
    /\ attempts >= 2
    /\ RemoveCalled
    /\ add_result = Some(ApiError(400, Duplicate))
    /\ attempt_result = Some(TRUE)

(***************************************************************************)
(* What the metadata update of consolidate_metadata carries.               *)
(***************************************************************************)
UpdateParameters == {"latitude", "longitude", "date_time_original", "description"}

\* The winner's EXIF block, as the remote service holds it, has the value.
WinnerHolds(parameter) ==
    /\ remote_assets[winner_id] # None
    /\ LET e == Unwrap(remote_assets[winner_id])
       IN  CASE parameter = "latitude" -> e.latitude # None
             [] parameter = "longitude" -> e.longitude # None
             [] parameter = "date_time_original" -> e.date_time_original # None
             [] parameter = "description" -> e.description # None

Sent(k, parameter) ==
    CASE parameter = "latitude" -> update_calls[k].latitude # None
      [] parameter = "longitude" -> update_calls[k].longitude # None
      [] parameter = "date_time_original" -> update_calls[k].date_time_original # None
      [] parameter = "description" -> update_calls[k].description # None

\* At most one update per group, and only with something a fetched loser has.
OneUpdateIfSomethingFound ==
    /\ Len(update_calls) <= 1
    /\ \A k \in 1..Len(update_calls) :
          /\ update_calls[k].id = winner_id
          /\ \E parameter \in UpdateParameters : Sent(k, parameter)
          /\ \E field \in ConsolFields : \E j \in 1..Len(losers) :
                Supplies(j, field) /\ SentValue(field) = Some(FieldValue(losers[j], field))

\* C34, as claimed: the metadata update sent to the winner contains only
\* fields that the winner lacked when it was fetched; a field the winner
\* already has is never sent, and the update is sent at most once per group
\* and only if at least one field was found on a loser.
UpdateSendsOnlyLackedFields ==
    /\ OneUpdateIfSomethingFound
    /\ \A k \in 1..Len(update_calls) : \A parameter \in UpdateParameters :
          Sent(k, parameter) => ~WinnerHolds(parameter)

\* C34, amended: capture time and description are sent only if the winner
\* lacks them; the two coordinates are sent only together and only if the
\* winner lacks at least one of them, so that a single coordinate the winner
\* has is sent again with the loser's value.  The update is sent at most
\* once per group and only if at least one field was found on a loser.
UpdateSendsOnlyLackedFieldsGpsAsPair ==
    /\ OneUpdateIfSomethingFound
    /\ \A k \in 1..Len(update_calls) :
          /\ Sent(k, "date_time_original") => ~WinnerHolds("date_time_original")
          /\ Sent(k, "description") => ~WinnerHolds("description")
          /\ Sent(k, "latitude") <=> Sent(k, "longitude")
          /\ Sent(k, "latitude") => ~(WinnerHolds("latitude") /\ WinnerHolds("longitude"))

\* The update carried a latitude to a winner that has one (and no longitude).
LatitudeOfWinnerSentAgain ==
    /\ update_calls # <<>>
    /\ WinnerHolds("latitude")
    /\ ~WinnerHolds("longitude")
    /\ Sent(1, "latitude")
    /\ update_calls[1].latitude # Unwrap(remote_assets[winner_id]).latitude

(***************************************************************************)
(* The backup files of download_loser.  Asset ids, file names and paths    *)
(* are strings; the losers of a group have distinct asset ids.             *)
(***************************************************************************)
MaxPathLosers == 2

\* config.backup_dir
BackupDir == <<"d">>

\* Path::join: an absolute path replaces the base, any other is appended.
Path_join(base, path) ==
    IF path # <<>> /\ path[1] = "/" THEN path ELSE base \o <<"/">> \o path

\* format!("{}_{}", asset_id, filename)
safe_filename(asset_id, filename) == asset_id \o <<"_">> \o filename

download_path(asset_id, filename) ==
    Path_join(BackupDir, safe_filename(asset_id, filename))

AssetIdOptions == {<<"a">>, <<"b">>, <<"a", "_", "b">>, <<"a", "b">>}

FilenameOptions == {<<"c">>, <<"b", "_", "c">>, <<"_", "c">>, <<"b", "c">>}

LoserFile(asset_id, filename) == [asset_id |-> asset_id, filename |-> filename]

InitPaths ==
    /\ NoExec
    /\ NoLetterbox
    /\ group = <<>>
    /\ analysis = None
    /\ backup_paths = <<>>
    /\ \E n \in 1..MaxPathLosers :
          /\ loser_files \in [1..n -> {LoserFile(i, f) : i \in AssetIdOptions,
                                                        f \in FilenameOptions}]
          /\ \A i, j \in 1..n :
                loser_files[i].asset_id = loser_files[j].asset_id => i = j

\* download_loser for the next loser of the download loop: the path it
\* builds, and whether download_asset wrote the file there.
DownloadLoserToBackup ==
    /\ Len(backup_paths) < Len(loser_files)
    /\ LET loser == loser_files[Len(backup_paths) + 1]
       IN  \E ok \in BOOLEAN :
              backup_paths' =
                  Append(backup_paths,
                         [id |-> loser.asset_id,
                          path |-> download_path(loser.asset_id, loser.filename),
                          written |-> ok])
    /\ UNCHANGED <<execVars, scoreVars, letterboxVars, loser_files>>

NextPaths == DownloadLoserToBackup

SpecPaths == InitPaths /\ [][NextPaths]_vars

\* C35: backup destinations are collision-free: two losers with different
\* asset ids are never downloaded to the same path
\* backup_dir/{assetId}_{filename}, whatever their ids and filenames are.
BackupPathsCollisionFree ==
    \A i, j \in 1..Len(backup_paths) :
        backup_paths[i].id # backup_paths[j].id =>
            backup_paths[i].path # backup_paths[j].path

(***************************************************************************)
(* ExecutionReport::add_group_result on group results of any shape.        *)
(***************************************************************************)
MaxReportResults == 2

MaxReportDownloads == 1

OperationResults(id) == {Success(id), Failed(id), Skipped(id, ReasonNoDownloads)}

\* The download_results a GroupResult may hold: one result for each of the
\* first n losers.
DownloadResultsOptions ==
    UNION {{[k \in 1..n |-> f[k]] :
               f \in {g \in [1..n -> UNION {OperationResults(id) : id \in 1..n}] :
                         \A k \in 1..n : g[k].id = k}} :
           n \in 0..MaxReportDownloads}

DeleteResultOptions == {None} \cup {Some(r) : r \in OperationResults("batch")}

InitReport ==
    /\ NoExec
    /\ NoScore

\* One call of add_group_result, with any GroupResult.
AddAnyGroupResult ==
    /\ report.total_groups < MaxReportResults
    /\ \E downloads \in DownloadResultsOptions : \E delete \in DeleteResultOptions :
          report' = add_group_result(report, GroupResult(None, None, downloads, delete))
    /\ UNCHANGED <<analyses, backup_dir, all_pc, group_index, configVars, detailVars,
                   inputVars, albumVars, resultVars, callVars, pc, idx, functionVars>>

NextReport == AddAnyGroupResult

SpecReport == InitReport /\ [][NextReport]_vars

DeleteSucceeded(delete) == IsSome(delete) /\ Unwrap(delete).status = "Success"

\* The number of download results of the status in the groups of
\* report.results, or only in those whose delete_result is Success.
RECURSIVE CountDownloads(_, _, _)
CountDownloads(results, status, only_deleted) ==
    IF results = <<>> THEN 0
    ELSE (IF only_deleted => DeleteSucceeded(Head(results).delete_result)
          THEN Cardinality({k \in 1..Len(Head(results).download_results) :
                               Head(results).download_results[k].status = status})
          ELSE 0)
         + CountDownloads(Tail(results), status, only_deleted)

\* The number of groups of report.results whose delete_result has the status.
CountDeletes(results, status) ==
    Cardinality({g \in 1..Len(results) :
                    /\ IsSome(results[g].delete_result)
                    /\ Unwrap(results[g].delete_result).status = status})

\* C36: after any sequence of add_group_result calls the running counters of
\* ExecutionReport equal the values recomputed from report.results:
\* total_groups = number of results, downloaded = number of Success downloads,
\* deleted = number of Success downloads in groups whose delete_result is
\* Success, failed = Failed downloads plus Failed deletes, skipped = Skipped
\* downloads plus Skipped deletes; hence deleted <= downloaded.
CountersMatchResults ==
    /\ report.total_groups = Len(report.results)
    /\ report.downloaded = CountDownloads(report.results, "Success", FALSE)
    /\ report.deleted = CountDownloads(report.results, "Success", TRUE)
    /\ report.failed = CountDownloads(report.results, "Failed", FALSE)
                         + CountDeletes(report.results, "Failed")
    /\ report.skipped = CountDownloads(report.results, "Skipped", FALSE)
                          + CountDeletes(report.results, "Skipped")
    /\ report.deleted <= report.downloaded

\* Two groups were added: fewer assets were deleted than downloaded, the
\* delete of one group having been skipped.
CountersOfTwoMixedGroups ==
    /\ report.total_groups = 2
    /\ report.deleted >= 1
    /\ report.deleted < report.downloaded
    /\ report.skipped >= 1

(***************************************************************************)
(* execute_group on the analysis from_group made of a group: which asset   *)
(* ids the download, remove-from-album and delete calls name.  Every loser *)
(* belongs to album 1; the asset ids of a group are distinct.              *)
(***************************************************************************)
MaxSurviveAssets == 3

\* The winner is listed with the losers.
loser_ids_with_winner(a) ==
    <<a.winner.asset_id>> \o [k \in 1..Len(a.losers) |-> a.losers[k].asset_id]

\* analysis.losers.iter().map(|l| l.asset_id.clone()).collect()
loser_ids(a) == [k \in 1..Len(a.losers) |-> a.losers[k].asset_id]

\* EXIF blocks that differ in score and in file size.
SurviveExifOptions ==
    {None,
     Some([NoFields EXCEPT !.make = Some(<<"a">>)]),
     Some([NoFields EXCEPT !.file_size_in_byte = Some(5)])}

InitSurvive ==
    /\ NoDetail
    /\ NoRun
    /\ NoLetterbox
    /\ NoPaths
    /\ duplicate_id = "group"
    /\ \E n \in 1..MaxSurviveAssets : group \in Groups(n, SurviveExifOptions)
    /\ analysis = Some(from_group(group))
    /\ preserve_albums \in BOOLEAN
    /\ force_delete = FALSE
    /\ winner_id = Unwrap(analysis).winner.asset_id
    /\ losers = loser_ids(Unwrap(analysis))
    /\ albums_of = [id \in SeqToSet(losers) |-> {1}]
    /\ pc = "Consolidating"
    /\ idx = 1
    /\ consolidation_result = None
    /\ albums_to_transfer = {}
    /\ pending_albums = {}
    /\ had_failures = FALSE
    /\ error_messages = <<>>
    /\ transferred_albums = <<>>
    /\ album_transfer_result = None
    /\ download_results = <<>>
    /\ delete_result = None
    /\ group_result = None
    /\ download_calls = <<>>
    /\ delete_calls = <<>>
    /\ remote_calls = <<>>

\* The calls of the last attempt transfer_single_album made for the album:
\* the add call and, unless the add call failed, the remove call.
LastAttemptCalls(album_id, transfer_succeeded) ==
    LET add == [op |-> "add_assets_to_album", album |-> album_id, ids |-> <<winner_id>>]
        remove == [op |-> "remove_assets_from_album", album |-> album_id, ids |-> losers]
    IN  IF transfer_succeeded THEN {<<add, remove>>} ELSE {<<add>>, <<add, remove>>}

\* One iteration of the transfer loop, with the album calls of its last
\* attempt.
TransferAlbumCalls ==
    /\ pc = "TransferAlbums"
    /\ \E album_id \in pending_albums :
          /\ pending_albums' = pending_albums \ {album_id}
          /\ \E transfer_succeeded \in BOOLEAN :
                /\ attempt_calls' \in LastAttemptCalls(album_id, transfer_succeeded)
                /\ IF transfer_succeeded
                   THEN /\ transferred_albums' = Append(transferred_albums, album_id)
                        /\ UNCHANGED <<had_failures, error_messages>>
                   ELSE /\ had_failures' = TRUE
                        /\ error_messages' =
                              Append(error_messages, [kind |-> "transfer", id |-> album_id])
                        /\ UNCHANGED transferred_albums
    /\ Called("albums")
    /\ UNCHANGED <<configVars, runVars, gateVars, consolVars, inputVars, albums_to_transfer,
                   album_transfer_result, resultVars, download_calls, delete_calls, pc,
                   idx, functionVars, transfer_pc, current_album, elapsed, delay,
                   attempts, add_result, remove_result, attempt_result, last_sleep,
                   transfer_returned>>

NextSurvive ==
    \/ ConsolidateMetadata
    \/ GetAlbumsForAsset
    \/ AlbumsCollected
    \/ TransferAlbumCalls
    \/ AlbumsTransferred
    \/ Decide
    \/ DownloadLoser
    \/ DeleteAssets

SpecSurvive == InitSurvive /\ [][NextSurvive]_vars

\* The asset ids named by the remove-from-album calls in attempt_calls.
RemovedFromAlbum ==
    UNION {SeqToSet(attempt_calls[k].ids) :
              k \in {j \in 1..Len(attempt_calls) :
                        attempt_calls[j].op = "remove_assets_from_album"}}

\* C37: the winner's asset id never appears in a download call, in a
\* remove-from-album call or in a delete call of its own group, provided the
\* asset ids of the group are distinct: the winner survives every execution
\* of its group.
WinnerSurvives ==
    (/\ IsSome(analysis)
     /\ \A i, j \in 1..Len(group) : group[i].id = group[j].id => i = j) =>
        /\ winner_id = Analysed.winner.asset_id
        /\ \E k \in 1..Len(group) : group[k].id = winner_id
        /\ winner_id \notin SeqToSet(download_calls)
        /\ winner_id \notin RemovedFromAlbum
        /\ \A k \in 1..Len(delete_calls) : winner_id \notin SeqToSet(delete_calls[k].ids)

\* The last asset of three won; both others were removed from the album,
\* downloaded and deleted.
LastAssetSurvivedAlone ==
    /\ IsSome(analysis)
    /\ Len(group) = 3
    /\ winner_id = group[3].id
    /\ RemovedFromAlbum = {group[1].id, group[2].id}
    /\ SeqToSet(download_calls) = {group[1].id, group[2].id}
    /\ pc = "Done"
    /\ Len(delete_calls) = 1
    /\ SeqToSet(delete_calls[1].ids) = {group[1].id, group[2].id}

(***************************************************************************)
(* execute_all behind the rate gate.  execute_all is one task: each of its *)
(* remote calls goes through rate_limited, which waits for a rate token,   *)
(* acquires a permit, awaits the call and gives the permit back.  A call   *)
(* that is made returns; time is not modelled.                             *)
(***************************************************************************)
MaxRunGroups == 1

MaxRunLosers == 1

MaxRunPermits == 1

\* Executor::new for any configuration, then execute_all.
InitRun ==
    /\ NoConsol
    /\ NoTransfer
    /\ \E rate \in {0, DefaultRequestsPerSec} : \E permits \in 0..MaxRunPermits :
          NewExecutor(rate, permits, 0, 0)
    /\ EnterExecuteAll(MaxRunGroups, MaxRunLosers)

\* self.concurrency.acquire().await completes only when a permit is free.
PermitAcquired == concurrency >= 1

ConsolidateMetadataThroughGate == PermitAcquired /\ ConsolidateMetadata

GetAlbumsForAssetThroughGate == PermitAcquired /\ GetAlbumsForAsset

TransferAlbumThroughGate == PermitAcquired /\ TransferAlbum

DownloadLoserThroughGate == PermitAcquired /\ DownloadLoser

\* delete_assets is called only if some download succeeded.
DeleteAssetsThroughGate ==
    /\ delete_is_skipped(downloaded_ids(download_results)) \/ PermitAcquired
    /\ DeleteAssets

NextRun ==
    \/ CreateBackupDir
    \/ ExecuteGroupBegin
    \/ ConsolidateMetadataThroughGate
    \/ GetAlbumsForAssetThroughGate
    \/ AlbumsCollected
    \/ TransferAlbumThroughGate
    \/ AlbumsTransferred
    \/ Decide
    \/ DownloadLoserThroughGate
    \/ DeleteAssetsThroughGate
    \/ AddGroupResult
    \/ ReturnReport

\* The task is run for as long as it can take a step.
SpecRun == InitRun /\ [][NextRun]_vars /\ WF_vars(NextRun)

\* C38: for every finite list of analyses and every ExecutionConfig that
\* Executor::new accepts (any requests_per_sec and any max_concurrent),
\* execute_all eventually returns, assuming each remote call itself returns:
\* no rate-gated call waits forever for a rate token or for a permit.
ExecuteAllReturns == <>(all_pc = "Returned")

\* The retry loop is run for as long as it can take a step, and every call
\* it awaits returns.
FairSpecTransfer == SpecTransfer /\ WF_vars(NextTransfer)

\* transfer_single_album returns, whatever the attempts answer.
TransferUnitTerminates == <>(transfer_pc = "Returned")

\* No unit makes more than nine attempts: eight sleeps of 0.25 s doubling
\* each time, the last one clamped, use up the 60 seconds.
AtMostNineAttempts == attempts <= 9

\* Every attempt after the first starts with budget left.
FurtherAttemptStartsWithinBudget ==
    transfer_pc = "Add" /\ attempts > 1 => elapsed < MAX_DURATION

\* C39: an album-transfer unit always terminates: if every attempt fails,
\* transfer_single_album returns false after at most 9 attempts, and it
\* starts no further attempt once the 60-second budget is used up.
TransferStopsWhenBudgetUsedUp ==
    /\ AtMostNineAttempts
    /\ FurtherAttemptStartsWithinBudget
    /\ transfer_pc = "Returned" /\ attempt_result = Some(FALSE)
          => transfer_returned = Some(FALSE)

(***************************************************************************)
(* detect_conflicts on the same assets in another order.                   *)
(***************************************************************************)
\* The orders in which n assets can be listed.
Orders(n) == {p \in [1..n -> 1..n] : \A i, j \in 1..n : p[i] = p[j] => i = j}

Reordered(assets, p) == [k \in 1..Len(assets) |-> assets[p[k]]]

\* The kinds of the reported conflicts.
KindsOf(conflicts) == {conflicts[k].type : k \in 1..Len(conflicts)}

\* C40: the kinds of conflict reported by detect_conflicts, and therefore
\* needs_review, do not depend on the order of the assets in the group: every
\* permutation of the same assets yields the same set of conflict kinds.
ConflictKindsIndependentOfOrder ==
    IsSome(analysis) =>
        \A p \in Orders(Len(group)) :
            LET conflicts == detect_conflicts(Reordered(group, p))
            IN  /\ KindsOf(conflicts) = KindsOf(Unwrap(analysis).conflicts)
                /\ needs_review_of(conflicts) = Unwrap(analysis).needs_review

\* Three assets 9, 0 and 18 units of latitude apart were analysed in that
\* order, in which dedupe_gps keeps one position only (it keeps two when the
\* first two assets change places), and the GPS conflict was reported.
GpsConflictFoundInEveryOrder ==
    /\ IsSome(analysis)
    /\ gps_values(group) = <<<<9, 0>>, <<0, 0>>, <<18, 0>>>>
    /\ dedupe_gps(gps_values(group)) # dedupe_gps(gps_values(Reordered(group, <<2, 1, 3>>)))
    /\ "Gps" \in KindsOf(Unwrap(analysis).conflicts)
    /\ Unwrap(analysis).needs_review

====
